---- MODULE Spec2Model ----
(***************************************************************************)
(* Model of InputFetcher (src/src/inputfetcher.h): one producer thread     *)
(* running FetchInputs, worker threads running Loop, and the destructor.   *)
(* The critical sections of FetchInputs, Add and Loop are entered by an     *)
(* explicit lock step, so that the holder of m_mutex is part of the state; *)
(* the one-assignment section of the destructor is a single step.  A       *)
(* thread blocked in a condition-variable wait is at the position "wait"   *)
(* ("main_wait" for the producer); a notify moves it to the position where *)
(* it takes the mutex again.                                               *)
(***************************************************************************)
EXTENDS Integers, Sequences, FiniteSets, TLC

(* ------------------------------ bounds -------------------------------- *)
MaxInputs == 2
MaxWorkers == 2
MaxBatch == 2
MaxVin == 2
MaxCalls == 3

(* ------------------------------ data ---------------------------------- *)
Min(a, b) == IF a < b THEN a ELSE b
Max(a, b) == IF a > b THEN a ELSE b

COutPoint(h, i) == [hash |-> h, n |-> i]

\* The prevout of a coinbase input.
NullOutpoint == COutPoint("null", 0)

oA == COutPoint("X", 0)
oB == COutPoint("Y", 0)
oM == COutPoint("Z", 0)
oC == COutPoint("T0", 0)
oD == COutPoint("T1", 0)
oK == COutPoint("W", 0)

\* Outpoints the inputs of the block's non-coinbase transactions are drawn from:
\* two coins of the store (oA, oB), one outpoint the store lacks (oM), an
\* output of the block's coinbase (oC), an output of the block's first
\* transaction (oD), and a coin of the store that the cache holds, modified,
\* when FetchInputs is called (oK).
InputOutpoints == {oA, oB, oM, oC, oD, oK}
AllOutpoints == InputOutpoints \cup {NullOutpoint}

NoCoin == "none"

\* The persistent store: outpoint -> coin.  Outputs of the block being
\* connected are not in it.
CoinsDB == (oA :> "coinA") @@ (oB :> "coinB") @@ (oK :> "coinK")

\* CCoinsViewDB::GetCoin(outpoint, coin): the coin, or NoCoin when it returns false.
GetCoin(db, outpoint) == IF outpoint \in DOMAIN db THEN db[outpoint] ELSE NoCoin

NoEntry == [coin |-> NoCoin, dirty |-> FALSE]
EmptyCache == [o \in AllOutpoints |-> NoEntry]

\* CCoinsViewCache::HaveCoinInCache
HaveCoinInCache(c, outpoint) == c[outpoint].coin # NoCoin

\* CCoinsViewCache::EmplaceCoinInternalDANGER(outpoint, coin, set_dirty)
EmplaceCoinInternalDANGER(c, outpoint, coin, set_dirty) ==
    [c EXCEPT ![outpoint] = [coin |-> coin, dirty |-> set_dirty]]

\* The cache FetchInputs is called with: it holds oK, spent from and dirty.
InitialCache == [EmptyCache EXCEPT ![oK] = [coin |-> "cachedK", dirty |-> TRUE]]

CTransaction(h, cb, ins) == [hash |-> h, coinbase |-> cb, vin |-> ins]
IsCoinBase(tx) == tx.coinbase
GetHash(tx) == tx.hash

CoinbaseTx == CTransaction("T0", TRUE, <<NullOutpoint>>)

SeqsUpTo(S, k) == UNION {[1..m -> S] : m \in 1..k}

\* A block: the coinbase, then one or two transactions T1, T2 that share
\* between 1 and MaxInputs inputs (T1 takes the first `cut` of them).
BlockOf(ins, cut) ==
    IF cut = Len(ins)
    THEN <<CoinbaseTx, CTransaction("T1", FALSE, ins)>>
    ELSE <<CoinbaseTx, CTransaction("T1", FALSE, SubSeq(ins, 1, cut)),
           CTransaction("T2", FALSE, SubSeq(ins, cut + 1, Len(ins)))>>

Blocks == {BlockOf(ins, cut) : <<ins, cut>> \in
             {<<i, c>> \in SeqsUpTo(InputOutpoints, MaxInputs) \X (1..MaxInputs) :
                 c <= Len(i)}}

Workers == 1..MaxWorkers

\* The numbers of the outpoint occurrences of a call, in the order in which
\* they are handed to the shared queue: a block has MaxInputs inputs at most.
Occurrences == 1..MaxInputs

Thread(kind, id) == [kind |-> kind, id |-> id]
NoThread == Thread("free", 0)
MainThread == Thread("main", 0)
WorkerThread(w) == Thread("worker", w)

(* ------------------- kernel_verify_script: data ----------------------- *)

\* An unsigned int is the set of the positions of its 1 bits.
WordBits == 0..31
Bit(n) == {n}
BitAnd(a, b) == a \cap b
BitOr(a, b) == a \cup b
BitNot(a) == WordBits \ a

\* kernel_ScriptVerifyStatus
kernel_SCRIPT_VERIFY_OK == 0
kernel_SCRIPT_VERIFY_ERROR_TX_INPUT_INDEX == 1
kernel_SCRIPT_VERIFY_ERROR_INVALID_FLAGS == 2
kernel_SCRIPT_VERIFY_ERROR_INVALID_FLAGS_COMBINATION == 3
kernel_SCRIPT_VERIFY_ERROR_SPENT_OUTPUTS_REQUIRED == 4
kernel_SCRIPT_VERIFY_ERROR_SPENT_OUTPUTS_MISMATCH == 5

kernel_ScriptVerifyStatus == 0..5

\* kernel_ScriptFlags
kernel_SCRIPT_FLAGS_VERIFY_NONE == {}
kernel_SCRIPT_FLAGS_VERIFY_P2SH == Bit(0)
kernel_SCRIPT_FLAGS_VERIFY_DERSIG == Bit(2)
kernel_SCRIPT_FLAGS_VERIFY_NULLDUMMY == Bit(4)
kernel_SCRIPT_FLAGS_VERIFY_CHECKLOCKTIMEVERIFY == Bit(9)
kernel_SCRIPT_FLAGS_VERIFY_CHECKSEQUENCEVERIFY == Bit(10)
kernel_SCRIPT_FLAGS_VERIFY_WITNESS == Bit(11)
kernel_SCRIPT_FLAGS_VERIFY_TAPROOT == Bit(17)

\* The flags of script/interpreter.h that bitcoinkernel.cpp names.  The first
\* two are the flags the interface exposes under its own names; the clean
\* stack flag is a flag of its own, which kernel_ScriptFlags does not list.
SCRIPT_VERIFY_P2SH == Bit(0)
SCRIPT_VERIFY_WITNESS == Bit(11)
SCRIPT_VERIFY_CLEANSTACK == Bit(8)

\* Mutant of kernel_SCRIPT_FLAGS_VERIFY_ALL: the interface exposes the clean
\* stack flag too.
kernel_SCRIPT_FLAGS_VERIFY_ALL_CleanStack ==
    UNION {kernel_SCRIPT_FLAGS_VERIFY_P2SH, kernel_SCRIPT_FLAGS_VERIFY_DERSIG,
           kernel_SCRIPT_FLAGS_VERIFY_NULLDUMMY,
           kernel_SCRIPT_FLAGS_VERIFY_CHECKLOCKTIMEVERIFY,
           kernel_SCRIPT_FLAGS_VERIFY_CHECKSEQUENCEVERIFY,
           kernel_SCRIPT_FLAGS_VERIFY_WITNESS, kernel_SCRIPT_FLAGS_VERIFY_TAPROOT,
           SCRIPT_VERIFY_CLEANSTACK}

kernel_SCRIPT_FLAGS_VERIFY_ALL ==
    UNION {kernel_SCRIPT_FLAGS_VERIFY_P2SH, kernel_SCRIPT_FLAGS_VERIFY_DERSIG,
           kernel_SCRIPT_FLAGS_VERIFY_NULLDUMMY,
           kernel_SCRIPT_FLAGS_VERIFY_CHECKLOCKTIMEVERIFY,
           kernel_SCRIPT_FLAGS_VERIFY_CHECKSEQUENCEVERIFY,
           kernel_SCRIPT_FLAGS_VERIFY_WITNESS, kernel_SCRIPT_FLAGS_VERIFY_TAPROOT}

\* Mutant of verify_flags: it asks for a recognized flag, not for the absence
\* of unrecognized ones.
verify_flags_any(flags) == BitAnd(flags, kernel_SCRIPT_FLAGS_VERIFY_ALL) # {}

\* bitcoinkernel.cpp, lines 83-86.
verify_flags(flags) == BitAnd(flags, BitNot(kernel_SCRIPT_FLAGS_VERIFY_ALL)) = {}

\* Mutant of is_valid_flag_combination: taproot is refused without witness too.
is_valid_flag_combination_taproot_needs_witness(flags) ==
    /\ ~(/\ BitAnd(flags, SCRIPT_VERIFY_CLEANSTACK) # {}
         /\ BitAnd(BitNot(flags), BitOr(SCRIPT_VERIFY_P2SH, SCRIPT_VERIFY_WITNESS)) # {})
    /\ ~(/\ BitAnd(flags, SCRIPT_VERIFY_WITNESS) # {}
         /\ BitAnd(BitNot(flags), SCRIPT_VERIFY_P2SH) # {})
    /\ ~(/\ BitAnd(flags, kernel_SCRIPT_FLAGS_VERIFY_TAPROOT) # {}
         /\ BitAnd(BitNot(flags), SCRIPT_VERIFY_WITNESS) # {})

\* Mutant of is_valid_flag_combination: the witness rule is missing.
is_valid_flag_combination_cleanstack_only(flags) ==
    ~(/\ BitAnd(flags, SCRIPT_VERIFY_CLEANSTACK) # {}
      /\ BitAnd(BitNot(flags), BitOr(SCRIPT_VERIFY_P2SH, SCRIPT_VERIFY_WITNESS)) # {})

\* bitcoinkernel.cpp, lines 88-93.
is_valid_flag_combination(flags) ==
    IF /\ BitAnd(flags, SCRIPT_VERIFY_CLEANSTACK) # {}
       /\ BitAnd(BitNot(flags), BitOr(SCRIPT_VERIFY_P2SH, SCRIPT_VERIFY_WITNESS)) # {}
    THEN FALSE
    ELSE IF /\ BitAnd(flags, SCRIPT_VERIFY_WITNESS) # {}
            /\ BitAnd(BitNot(flags), SCRIPT_VERIFY_P2SH) # {}
    THEN FALSE
    ELSE TRUE

\* The flag words the calls are made with: every combination of the flags of
\* kernel_ScriptFlags, of the clean stack flag and of bit 31, which no flag
\* uses.
CallFlags == SUBSET (kernel_SCRIPT_FLAGS_VERIFY_ALL \cup SCRIPT_VERIFY_CLEANSTACK \cup Bit(31))

(* ----------------------- CValidationState: data ----------------------- *)

\* consensus/validation.h line 16.
REJECT_INVALID == 16

\* enum mode_state (lines 71-75).
MODE_VALID == "MODE_VALID"
MODE_INVALID == "MODE_INVALID"
MODE_ERROR == "MODE_ERROR"

\* The arguments the calls are made with: `int level` (a negative one
\* included; Invalid passes 0), two of the reasons of enum class
\* ValidationInvalidReason, a reject code, two reject messages and a debug
\* message; the object is constructed with none of them.
Levels == {-10, 10, 20}
Reasons == {"CONSENSUS", "TX_MEMPOOL_POLICY"}
RejectCodes == {REJECT_INVALID}
Messages == {"bad-txns", "bad-blk"}
DebugMessages == {"debug"}
\* What the caller's variable holds when it is passed to IsInvalid(int&):
\* 0, or a value no score of the model takes.
OutValues == {0, 99}

\* The constructor (line 83); the strings are default-constructed.
CValidationState ==
    [mode |-> MODE_VALID, reason |-> "NONE", nDoS |-> 0, strRejectReason |-> "",
     chRejectCode |-> 0, corruptionPossible |-> FALSE, strDebugMessage |-> ""]

\* DoS, lines 88-92: the five assignments made in every mode.
Record(s, reasonIn, chRejectCodeIn, strRejectReasonIn, corruptionIn, strDebugMessageIn) ==
    [s EXCEPT !.reason = reasonIn,
              !.chRejectCode = chRejectCodeIn,
              !.strRejectReason = strRejectReasonIn,
              !.corruptionPossible = corruptionIn,
              !.strDebugMessage = strDebugMessageIn]

\* Lines 95-96 with the level assigned instead of added.
PenalizeReplacing(s, level) ==
    [s EXCEPT !.nDoS = level, !.mode = MODE_INVALID]

\* Lines 95-96 with the level subtracted.
PenalizeSubtracting(s, level) ==
    [s EXCEPT !.nDoS = @ - level, !.mode = MODE_INVALID]

\* Lines 95-96 with the mode left alone.
PenalizeKeepingMode(s, level) ==
    [s EXCEPT !.nDoS = @ + level]

\* DoS, lines 95-96: `nDoS += level; mode = MODE_INVALID;`.
Penalize(s, level) ==
    [s EXCEPT !.nDoS = @ + level, !.mode = MODE_INVALID]

\* DoS without the test of lines 93-94.
DoSAfterError(s, level, reasonIn, ret, chRejectCodeIn, strRejectReasonIn, corruptionIn, strDebugMessageIn) ==
    [state |-> Penalize(Record(s, reasonIn, chRejectCodeIn, strRejectReasonIn,
                               corruptionIn, strDebugMessageIn), level),
     ret |-> ret]

\* DoS with the level added before the test of lines 93-94.
DoSScoreInError(s, level, reasonIn, ret, chRejectCodeIn, strRejectReasonIn, corruptionIn, strDebugMessageIn) ==
    LET s1 == Record(s, reasonIn, chRejectCodeIn, strRejectReasonIn, corruptionIn,
                     strDebugMessageIn)
        s2 == [s1 EXCEPT !.nDoS = @ + level]
    IN  IF s2.mode = MODE_ERROR
        THEN [state |-> s2, ret |-> ret]
        ELSE [state |-> [s2 EXCEPT !.mode = MODE_INVALID], ret |-> ret]

\* DoS with the test of lines 93-94 before the assignments of lines 88-92.
DoSSilentInError(s, level, reasonIn, ret, chRejectCodeIn, strRejectReasonIn, corruptionIn, strDebugMessageIn) ==
    IF s.mode = MODE_ERROR
    THEN [state |-> s, ret |-> ret]
    ELSE [state |-> Penalize(Record(s, reasonIn, chRejectCodeIn, strRejectReasonIn,
                                    corruptionIn, strDebugMessageIn), level),
          ret |-> ret]

\* DoS (lines 84-98): the object after the call and the value returned.
DoS(s, level, reasonIn, ret, chRejectCodeIn, strRejectReasonIn, corruptionIn, strDebugMessageIn) ==
    LET s1 == Record(s, reasonIn, chRejectCodeIn, strRejectReasonIn, corruptionIn,
                     strDebugMessageIn)
    IN  IF s1.mode = MODE_ERROR
        THEN [state |-> s1, ret |-> ret]
        ELSE [state |-> Penalize(s1, level), ret |-> ret]

\* Invalid passing the object's corruption flag on instead of false.
InvalidKeepingCorruption(s, _reason, ret, _chRejectCode, _strRejectReason, _strDebugMessage) ==
    DoS(s, 0, _reason, ret, _chRejectCode, _strRejectReason, s.corruptionPossible,
        _strDebugMessage)

\* Invalid (lines 99-103).
Invalid(s, _reason, ret, _chRejectCode, _strRejectReason, _strDebugMessage) ==
    DoS(s, 0, _reason, ret, _chRejectCode, _strRejectReason, FALSE, _strDebugMessage)

\* Error storing the message of every call.
ErrorLastWins(s, strRejectReasonIn) ==
    [state |-> [s EXCEPT !.strRejectReason = strRejectReasonIn, !.mode = MODE_ERROR],
     ret |-> FALSE]

\* Error (lines 104-109).
Error(s, strRejectReasonIn) ==
    LET s1 == IF s.mode = MODE_VALID
              THEN [s EXCEPT !.strRejectReason = strRejectReasonIn]
              ELSE s
    IN  [state |-> [s1 EXCEPT !.mode = MODE_ERROR], ret |-> FALSE]

\* Lines 110-118.
IsValid(s) == s.mode = MODE_VALID
IsInvalid(s) == s.mode = MODE_INVALID
IsError(s) == s.mode = MODE_ERROR

\* IsInvalid(int&) writing the score in every mode.
IsInvalidOutAlways(s, nDoSOut) ==
    [ret |-> IsInvalid(s), nDoSOut |-> s.nDoS]

\* IsInvalid(int &nDoSOut), lines 119-125: the value returned and the
\* caller's variable after the call.
IsInvalidOut(s, nDoSOut) ==
    IF IsInvalid(s)
    THEN [ret |-> TRUE, nDoSOut |-> s.nDoS]
    ELSE [ret |-> FALSE, nDoSOut |-> nDoSOut]

\* Lines 126-128.
CorruptionPossible(s) == s.corruptionPossible

\* Lines 129-131.
SetCorruptionPossible(s) == [s EXCEPT !.corruptionPossible = TRUE]

\* Line 133.
GetDoS(s) == s.nDoS

\* Line 135.
GetRejectReason(s) == s.strRejectReason

\* The record of a call: the member called and its arguments (the defaults
\* of the declaration for those the member does not take).
Call(op, level, reasonIn, ret, chRejectCodeIn, strRejectReasonIn, corruptionIn, strDebugMessageIn) ==
    [op |-> op, level |-> level, reasonIn |-> reasonIn, ret |-> ret,
     chRejectCodeIn |-> chRejectCodeIn, strRejectReasonIn |-> strRejectReasonIn,
     corruptionIn |-> corruptionIn, strDebugMessageIn |-> strDebugMessageIn]
NoCall == Call("none", 0, "NONE", FALSE, 0, "", FALSE, "")

(* ------------------------------ state --------------------------------- *)
VARIABLES
    block,            \* the CBlock passed to FetchInputs
    cache,            \* the CCoinsViewCache passed to FetchInputs
    worker_threads,   \* m_worker_threads.size()
    m_batch_size,
    m_db,             \* "null" or "db"
    m_mutex,          \* the thread that owns m_mutex, or NoThread
    m_outpoints,
    m_pairs,
    m_in_flight_fetches_count,
    m_request_stop,
    fi_pc,            \* position of the producer in FetchInputs
    txi, ini,         \* FetchInputs: position of the scan (transaction, input)
    buffer, txids,    \* FetchInputs: locals
    fi_pairs,         \* FetchInputs: local `pairs`
    pc,               \* pc[w]: position of worker w in Loop
    in_flight_fetches_count, pairs, outpoints, it,   \* Loop: locals of worker w
    d_pc,             \* position of the destructor
    \* history variables
    cache0,           \* the cache when FetchInputs was called
    enqueued,         \* what the scan put in `buffer`: [outpoint, tx]
    lookups,          \* lookups[o]: number of GetCoin calls for o
    emplaced,         \* the EmplaceCoinInternalDANGER calls: [outpoint, coin, dirty]
    claimed,          \* claimed[w]: the batch w claimed and has not merged yet
    published,        \* the pairs ever appended to m_pairs
    run,              \* 1, or 2 once the call is repeated or followed by another
    prev_cache,       \* the cache the first engine's call returned with
    handed,           \* the outpoint occurrences Add has put in m_outpoints so
                      \* far; they are numbered 1..handed in that order
    m_ids,            \* the numbers of the occurrences in m_outpoints
    claim_ids,        \* claim_ids[w]: the numbers of the batch w is looking up
    claimers,         \* claimers[n]: how many times occurrence n was claimed
    looked,           \* looked[n]: the GetCoin calls made for occurrence n
    \* kernel_verify_script
    kvs_pc,               \* position in kernel_verify_script
    flags,                \* the argument `flags`
    spent_outputs_null,   \* whether spent_outputs_ is nullptr
    spent_outputs_len,
    tx_vin_size,          \* tx.vin.size() of tx_to
    input_index,
    status_null,          \* whether `status` is nullptr
    status,               \* *status, when status is not nullptr
    status_in,            \* what *status held when the call was made
    verdict,              \* what VerifyScript returned: "none" until it does
    result,               \* the value returned: "none" until the return
    interpreter_calls,    \* the calls of VerifyScript
    txdata_spent_outputs, \* whether txdata.Init got the spent outputs
    \* CValidationState
    state,                \* the CValidationState object
    state_before,         \* the object before the last call
    call,                 \* the last call made on the object
    returned,             \* what the last call returned
    penalties,            \* the sum of the levels passed to DoS (Invalid passes 0)
    first_error,          \* <<>>, or the first Error call: its message and the
                          \* mode it was made in
    ops,                  \* the members called on the object, in order
    negative_level,       \* whether a negative level has been passed to DoS
    nDoSOut,              \* the caller's variable passed to IsInvalid(int&)
    nDoSOut_before        \* what it held when the call was made

kernelvars == <<kvs_pc, flags, spent_outputs_null, spent_outputs_len, tx_vin_size,
                input_index, status_null, status, status_in, verdict, result,
                interpreter_calls, txdata_spent_outputs>>
validationvars == <<state, state_before, call, returned, penalties, first_error, ops,
                    negative_level, nDoSOut, nDoSOut_before>>
occvars == <<handed, m_ids, claim_ids, claimers, looked>>
basevars == <<block, worker_threads, m_batch_size, cache0, run, prev_cache, kernelvars,
              validationvars>>
cfgvars == <<basevars, occvars>>
mainvars == <<fi_pc, txi, ini, buffer, txids, fi_pairs>>
workervars == <<pc, in_flight_fetches_count, pairs, outpoints, it>>
sharedvars == <<m_mutex, m_outpoints, m_pairs, m_in_flight_fetches_count, m_request_stop>>
histvars == <<enqueued, lookups, emplaced, claimed, published>>
vars == <<cfgvars, cache, m_db, sharedvars, mainvars, workervars, d_pc, histvars>>

\* No call of kernel_verify_script has been made.
KernelInit ==
    /\ kvs_pc = "idle"
    /\ flags = kernel_SCRIPT_FLAGS_VERIFY_NONE
    /\ spent_outputs_null = TRUE
    /\ spent_outputs_len = 0
    /\ tx_vin_size = 0
    /\ input_index = 0
    /\ status_null = TRUE
    /\ status = kernel_SCRIPT_VERIFY_OK
    /\ status_in = status
    /\ verdict = "none"
    /\ result = "none"
    /\ interpreter_calls = 0
    /\ txdata_spent_outputs = FALSE

\* A CValidationState has been constructed and no member called.
ValidationInit ==
    /\ state = CValidationState
    /\ state_before = state
    /\ call = NoCall
    /\ returned = FALSE
    /\ penalties = 0
    /\ first_error = <<>>
    /\ ops = <<>>
    /\ negative_level = FALSE
    /\ nDoSOut = 0
    /\ nDoSOut_before = nDoSOut

ActiveWorkers == 1..worker_threads

\* The threads blocked in m_worker_cv.wait
m_worker_cv == {w \in ActiveWorkers : pc[w] = "wait"}
\* Whether the producer is blocked in m_main_cv.wait
m_main_cv == fi_pc = "main_wait"

\* The engine after its construction (lines 145-155) with a batch size of
\* batch_sizes and 1..MaxWorkers workers, and the arguments of the call.
InitWith(batch_sizes) ==
    /\ block \in Blocks
    /\ cache = InitialCache
    /\ cache0 = cache
    /\ worker_threads \in 1..MaxWorkers
    /\ m_batch_size \in batch_sizes
    /\ m_db = "null"
    /\ m_mutex = NoThread
    /\ m_outpoints = <<>>
    /\ m_pairs = <<>>
    /\ m_in_flight_fetches_count = 0
    /\ m_request_stop = FALSE
    /\ fi_pc = "idle"
    /\ txi = 1 /\ ini = 1
    /\ buffer = <<>> /\ txids = {}
    /\ fi_pairs = <<>>
    /\ pc = [w \in Workers |-> IF w <= worker_threads THEN "lock" ELSE "none"]
    /\ in_flight_fetches_count = [w \in Workers |-> 0]
    /\ pairs = [w \in Workers |-> <<>>]
    /\ outpoints = [w \in Workers |-> <<>>]
    /\ it = [w \in Workers |-> 1]
    /\ d_pc = "alive"
    /\ enqueued = {}
    /\ lookups = [o \in AllOutpoints |-> 0]
    /\ emplaced = {}
    /\ claimed = [w \in Workers |-> <<>>]
    /\ published = {}
    /\ run = 1
    /\ prev_cache = cache
    /\ handed = 0
    /\ m_ids = <<>>
    /\ claim_ids = [w \in Workers |-> <<>>]
    /\ claimers = [n \in Occurrences |-> 0]
    /\ looked = [n \in Occurrences |-> 0]
    /\ KernelInit
    /\ ValidationInit

(* --------------------------- FetchInputs ------------------------------ *)

\* Mutant of FreshTxids: the set of transaction ids outlives the call.
KeptTxids == txids

\* Line 172: `std::set<Txid> txids{}` is a local of the call and starts empty.
FreshTxids == {}

\* FetchInputs, lines 168-172 and 199: m_db = &db and the empty locals.
FetchInputsEnter ==
    /\ fi_pc = "idle"
    /\ fi_pc' = "scan"
    /\ m_db' = "db"
    /\ txi' = 1 /\ ini' = 1
    /\ buffer' = <<>>
    /\ txids' = FreshTxids
    /\ fi_pairs' = <<>>
    /\ UNCHANGED <<cfgvars, cache, sharedvars, workervars, d_pc, histvars>>

\* Mutant of SkipTx: the coinbase is scanned like any transaction.
SkipTxNever(tx) == FALSE

\* Line 174: the `continue` that skips a whole transaction.
SkipTx(tx) == IsCoinBase(tx)

\* Mutant of SkipInput: the cache is not consulted.
SkipInputNoCacheCheck(ids, c, outpoint) == outpoint.hash \in ids

\* Lines 180-185: the two `continue`s of the inner loop.
SkipInput(ids, c, outpoint) ==
    \/ outpoint.hash \in ids
    \/ HaveCoinInCache(c, outpoint)

\* Mutant of AfterAdd: the producer drains after every Add.
AfterAddDrain == "drain_lock"

\* Where FetchInputs goes on when Add returns: back into the scan (line 190),
\* or, after the flush of line 197, to the drain loop.
AfterAdd == IF txi > Len(block) THEN "drain_lock" ELSE "scan"

\* The loops of lines 173-195 from transaction t, input i on, up to the next
\* call of Add: the one of line 189 (the buffer is full) or, at the end of the
\* block, the one of line 197.  The scan touches only locals of FetchInputs
\* and the cache, which no other thread writes.
RECURSIVE ScanRun(_, _, _, _, _)
ScanRun(t, i, buf, ids, enq) ==
    IF t > Len(block)
    THEN [txi |-> t, ini |-> i, buffer |-> buf, txids |-> ids, enqueued |-> enq]
    ELSE IF SkipTx(block[t])
    THEN ScanRun(t + 1, 1, buf, ids, enq)
    ELSE IF i > Len(block[t].vin)
    THEN ScanRun(t + 1, 1, buf, ids \cup {GetHash(block[t])}, enq)
    ELSE LET outpoint == block[t].vin[i] IN
         IF SkipInput(ids, cache, outpoint)
         THEN ScanRun(t, i + 1, buf, ids, enq)
         ELSE LET buf2 == Append(buf, outpoint)
                  enq2 == enq \cup {[outpoint |-> outpoint, tx |-> t]}
              IN  IF Len(buf2) = m_batch_size
                  THEN [txi |-> t, ini |-> i + 1, buffer |-> buf2, txids |-> ids,
                        enqueued |-> enq2]
                  ELSE ScanRun(t, i + 1, buf2, ids, enq2)

\* Lines 173-197 up to the next call of Add, which returns at once when the
\* buffer is empty (line 120).
Scan ==
    /\ fi_pc = "scan"
    /\ LET r == ScanRun(txi, ini, buffer, txids, enqueued)
       IN  /\ txi' = r.txi
           /\ ini' = r.ini
           /\ buffer' = r.buffer
           /\ txids' = r.txids
           /\ enqueued' = r.enqueued
           /\ fi_pc' = IF r.buffer = <<>> THEN "drain_lock" ELSE "add_lock"
    /\ UNCHANGED <<cfgvars, cache, m_db, sharedvars, fi_pairs, workervars, d_pc,
                   lookups, emplaced, claimed, published>>

\* Add, lines 126-127: LOCK(m_mutex) and the increment of the counter.
AddLock ==
    /\ fi_pc = "add_lock"
    /\ m_mutex = NoThread
    /\ m_mutex' = MainThread
    /\ m_in_flight_fetches_count' = m_in_flight_fetches_count + Len(buffer)
    /\ fi_pc' = "add_push"
    /\ UNCHANGED <<cfgvars, cache, m_db, m_outpoints, m_pairs, m_request_stop,
                   txi, ini, buffer, txids, fi_pairs, workervars, d_pc, histvars>>

\* Add, lines 128-133: the outpoints go to the end of m_outpoints; unlock.
AddPush ==
    /\ fi_pc = "add_push"
    /\ m_outpoints' = m_outpoints \o buffer
    /\ m_ids' = m_ids \o [i \in 1..Len(buffer) |-> handed + i]
    /\ handed' = handed + Len(buffer)
    /\ m_mutex' = NoThread
    /\ fi_pc' = "add_notify"
    /\ UNCHANGED <<basevars, claim_ids, claimers, looked, cache, m_db, m_pairs,
                   m_in_flight_fetches_count, m_request_stop, txi, ini, buffer, txids,
                   fi_pairs, workervars, d_pc, histvars>>

\* Mutant of NotifyWorkers: the notification is dropped.
NotifyLost(all, p) == {p}

\* m_worker_cv.notify_one() / notify_all(): the positions of the workers after it.
\* notify_one wakes any one of the waiting workers (none when nobody waits).
NotifyWorkers(all, p) ==
    IF m_worker_cv = {}
    THEN {p}
    ELSE IF all
    THEN {[w \in Workers |-> IF w \in m_worker_cv THEN "relock" ELSE p[w]]}
    ELSE {[p EXCEPT ![w] = "relock"] : w \in m_worker_cv}

\* Lines 135-139: which notify Add uses for a batch of `size` outpoints.
AddNotifiesAll(size) == size # 1

\* Add, lines 135-139, then lines 190-191 (the buffer is empty again).
AddNotify ==
    /\ fi_pc = "add_notify"
    /\ pc' \in NotifyWorkers(AddNotifiesAll(Len(buffer)), pc)
    /\ buffer' = <<>>
    /\ fi_pc' = AfterAdd
    /\ UNCHANGED <<cfgvars, cache, m_db, sharedvars, txi, ini, txids, fi_pairs,
                   in_flight_fetches_count, pairs, outpoints, it, d_pc, histvars>>

\* Line 202: WAIT_LOCK(m_mutex, lock); also the re-acquisition after a wait.
DrainLock ==
    /\ fi_pc = "drain_lock"
    /\ m_mutex = NoThread
    /\ m_mutex' = MainThread
    /\ fi_pc' = "drain_check"
    /\ UNCHANGED <<cfgvars, cache, m_db, m_outpoints, m_pairs,
                   m_in_flight_fetches_count, m_request_stop, txi, ini, buffer,
                   txids, fi_pairs, workervars, d_pc, histvars>>

\* Mutant of DrainDone: the producer looks at the queue, not at the counter.
DrainDoneQueueEmpty == m_outpoints = <<>>

\* Line 204: nothing is in flight any more.
DrainDone == m_in_flight_fetches_count = 0

\* Mutant of StopObserved: the drain loop does not look at the stop flag.
StopIgnored == FALSE

\* Lines 203 and 210: the producer reads m_request_stop under the mutex.
StopObserved == m_request_stop

\* Lines 203-216, with the mutex held: wait, return, or take the results.
DrainCheck ==
    /\ fi_pc = "drain_check"
    /\ m_mutex' = NoThread
    /\ IF m_pairs = <<>> /\ ~StopObserved
       THEN /\ fi_pc' = IF DrainDone THEN "returned" ELSE "main_wait"
            /\ UNCHANGED <<fi_pairs, m_pairs>>
       ELSE IF StopObserved
       THEN /\ fi_pc' = "stopped"
            /\ UNCHANGED <<fi_pairs, m_pairs>>
       ELSE /\ fi_pairs' = m_pairs
            /\ m_pairs' = <<>>
            /\ fi_pc' = "insert"
    /\ UNCHANGED <<cfgvars, cache, m_db, m_outpoints, m_in_flight_fetches_count,
                   m_request_stop, txi, ini, buffer, txids, workervars, d_pc, histvars>>

\* Mutant of SetDirty: the inserted coin is marked dirty.
SetDirtyTrue == TRUE

\* Line 219: the set_dirty argument.
SetDirty == FALSE

RECURSIVE EmplaceAll(_, _)
EmplaceAll(c, ps) ==
    IF ps = <<>> THEN c
    ELSE EmplaceAll(EmplaceCoinInternalDANGER(c, Head(ps)[1], Head(ps)[2], SetDirty),
                    Tail(ps))

\* Lines 218-220: every pair taken from m_pairs goes into the cache.
Insert ==
    /\ fi_pc = "insert"
    /\ cache' = EmplaceAll(cache, fi_pairs)
    /\ emplaced' = emplaced \cup
          {[outpoint |-> fi_pairs[i][1], coin |-> fi_pairs[i][2], dirty |-> SetDirty] :
              i \in 1..Len(fi_pairs)}
    /\ fi_pc' = "drain_lock"
    /\ UNCHANGED <<cfgvars, m_db, sharedvars, txi, ini, buffer, txids, fi_pairs,
                   workervars, d_pc, enqueued, lookups, claimed, published>>

\* A spurious return of m_main_cv.wait (line 207).
SpuriousWakeMain ==
    /\ fi_pc = "main_wait"
    /\ fi_pc' = "drain_lock"
    /\ UNCHANGED <<cfgvars, cache, m_db, sharedvars, txi, ini, buffer, txids,
                   fi_pairs, workervars, d_pc, histvars>>

(* ------------------------------- Loop --------------------------------- *)

\* Line 73 (and line 70: `outpoints` starts every iteration empty).
WorkerLock(w) ==
    /\ pc[w] = "lock"
    /\ m_mutex = NoThread
    /\ m_mutex' = WorkerThread(w)
    /\ pc' = [pc EXCEPT ![w] = "crit"]
    /\ outpoints' = [outpoints EXCEPT ![w] = <<>>]
    /\ UNCHANGED <<cfgvars, cache, m_db, m_outpoints, m_pairs,
                   m_in_flight_fetches_count, m_request_stop, mainvars,
                   in_flight_fetches_count, pairs, it, d_pc, histvars>>

\* Lines 96-98 without the even share of the work in flight.
ClaimSizeWholeBatch(qlen, inflight) ==
    Max(1, Min(qlen, m_batch_size))

\* Lines 96-98: the size of the batch a worker claims.
ClaimSize(qlen, inflight) ==
    LET even_bucket == inflight \div worker_threads
    IN  Max(1, Min(Min(qlen, m_batch_size), even_bucket))

\* Mutant of WorkerKeepsWaiting: the wait loop does not look at the stop flag.
WorkerKeepsWaitingNoStop == m_outpoints = <<>>

\* Line 89: the condition of the loop around m_worker_cv.wait.
WorkerKeepsWaiting == m_outpoints = <<>> /\ ~m_request_stop

\* Mutant of OwnerDuringFetch: the lookups run inside the critical section.
OwnerDuringFetchSelf(w) == WorkerThread(w)

\* Line 102: the scope of WAIT_LOCK closes before the lookup loop of lines
\* 106-113, so the worker that claimed a batch no longer owns the mutex.
OwnerDuringFetch(w) == NoThread

\* Line 101 without the erase: the claimed outpoints stay in the queue.
NotErased(q, start_it) == q

\* Line 101: `m_outpoints.erase(start_it, m_outpoints.end())`.
Erased(q, start_it) == SubSeq(q, 1, start_it)

\* Lines 89-104, with the mutex held: wait while there is no work, leave on
\* stop, else move the last ClaimSize outpoints of m_outpoints into the local
\* batch and unlock.  `inflight` is m_in_flight_fetches_count as the merge of
\* lines 76-86 left it; prs and clm are `pairs` and `claimed` after that merge.
WaitOrClaim(w, inflight, prs, clm) ==
    /\ IF WorkerKeepsWaiting
       THEN /\ pc' = [pc EXCEPT ![w] = "wait"]
            /\ m_mutex' = NoThread
            /\ pairs' = prs
            /\ claimed' = clm
            /\ UNCHANGED <<m_outpoints, outpoints, in_flight_fetches_count, it,
                           m_ids, claim_ids, claimers>>
       ELSE IF m_request_stop
       THEN /\ pc' = [pc EXCEPT ![w] = "done"]
            /\ m_mutex' = NoThread
            /\ pairs' = prs
            /\ claimed' = clm
            /\ UNCHANGED <<m_outpoints, outpoints, in_flight_fetches_count, it,
                           m_ids, claim_ids, claimers>>
       ELSE LET k == ClaimSize(Len(m_outpoints), inflight)
                start_it == Len(m_outpoints) - k
                batch == SubSeq(m_outpoints, start_it + 1, Len(m_outpoints))
                batch_ids == SubSeq(m_ids, start_it + 1, Len(m_ids))
            IN  /\ in_flight_fetches_count' = [in_flight_fetches_count EXCEPT ![w] = k]
                /\ outpoints' = [outpoints EXCEPT ![w] = batch]
                /\ m_outpoints' = Erased(m_outpoints, start_it)
                /\ m_ids' = Erased(m_ids, start_it)
                /\ claim_ids' = [claim_ids EXCEPT ![w] = batch_ids]
                /\ claimers' = [n \in Occurrences |->
                                  IF \E i \in 1..Len(batch_ids) : batch_ids[i] = n
                                  THEN claimers[n] + 1
                                  ELSE claimers[n]]
                /\ pairs' = [prs EXCEPT ![w] = <<>>]
                /\ claimed' = [clm EXCEPT ![w] = batch]
                /\ it' = [it EXCEPT ![w] = 1]
                /\ m_mutex' = OwnerDuringFetch(w)
                /\ pc' = [pc EXCEPT ![w] = "fetch"]

\* Mutant of MergePairs: the local pairs replace what m_pairs holds.
MergePairsOverwrite(shared, local) == local

\* Lines 77-83: m_pairs after the merge of a worker's local pairs.
MergePairs(shared, local) == shared \o local

\* Mutant of MergeDecrement: the number of results, not the batch size.
MergeDecrementResults(w) == Len(pairs[w])

\* Line 84: what the merge subtracts from the shared counter.
MergeDecrement(w) == in_flight_fetches_count[w]

\* Lines 76-102: the critical section that opens an iteration of Loop.  After
\* a first batch it appends the local pairs to m_pairs, decrements the counter
\* and notifies the producer; then it goes on as WaitOrClaim.  The moved-from
\* `pairs` is not read again before line 104 clears it; it is empty here.
WorkerCrit(w) ==
    /\ pc[w] = "crit"
    /\ LET merge == in_flight_fetches_count[w] # 0
           inflight == IF merge THEN m_in_flight_fetches_count - MergeDecrement(w)
                                ELSE m_in_flight_fetches_count
       IN  /\ m_pairs' = IF merge THEN MergePairs(m_pairs, pairs[w]) ELSE m_pairs
           /\ published' = IF merge
                           THEN published \cup {pairs[w][i] : i \in 1..Len(pairs[w])}
                           ELSE published
           /\ m_in_flight_fetches_count' = inflight
           /\ fi_pc' = IF merge /\ m_main_cv THEN "drain_lock" ELSE fi_pc
           /\ WaitOrClaim(w, inflight,
                          IF merge THEN [pairs EXCEPT ![w] = <<>>] ELSE pairs,
                          IF merge THEN [claimed EXCEPT ![w] = <<>>] ELSE claimed)
    /\ UNCHANGED <<basevars, handed, looked, cache, m_db, m_request_stop, txi, ini,
                   buffer, txids, fi_pairs, d_pc, enqueued, lookups, emplaced>>

\* m_worker_cv.wait returns (line 90): the mutex is taken again.
WorkerRelock(w) ==
    /\ pc[w] = "relock"
    /\ m_mutex = NoThread
    /\ m_mutex' = WorkerThread(w)
    /\ pc' = [pc EXCEPT ![w] = "recheck"]
    /\ UNCHANGED <<cfgvars, cache, m_db, m_outpoints, m_pairs,
                   m_in_flight_fetches_count, m_request_stop, mainvars,
                   in_flight_fetches_count, pairs, outpoints, it, d_pc, histvars>>

\* Lines 89-102 after a wait.
WorkerRecheck(w) ==
    /\ pc[w] = "recheck"
    /\ WaitOrClaim(w, m_in_flight_fetches_count, pairs, claimed)
    /\ UNCHANGED <<basevars, handed, looked, cache, m_db, m_pairs,
                   m_in_flight_fetches_count, m_request_stop, mainvars, d_pc, enqueued,
                   lookups, emplaced, published>>

\* Lines 106-113 with `continue` for the `break` of line 110: after a missing
\* coin the worker goes on with the next outpoint of the batch.
WorkerFetchContinue(w) ==
    /\ pc[w] = "fetch"
    /\ m_db = "db"
    /\ LET outpoint == outpoints[w][it[w]]
           coin == GetCoin(CoinsDB, outpoint)
       IN  /\ lookups' = [lookups EXCEPT ![outpoint] = @ + 1]
           /\ looked' = [looked EXCEPT ![claim_ids[w][it[w]]] = @ + 1]
           /\ IF coin = NoCoin
              THEN /\ it' = [it EXCEPT ![w] = @ + 1]
                   /\ pc' = [pc EXCEPT ![w] =
                                IF it[w] = Len(outpoints[w]) THEN "lock" ELSE "fetch"]
                   /\ claim_ids' = [claim_ids EXCEPT ![w] =
                                       IF it[w] = Len(outpoints[w]) THEN <<>> ELSE @]
                   /\ UNCHANGED pairs
              ELSE /\ pairs' = [pairs EXCEPT ![w] = Append(@, <<outpoint, coin>>)]
                   /\ it' = [it EXCEPT ![w] = @ + 1]
                   /\ pc' = [pc EXCEPT ![w] =
                                IF it[w] = Len(outpoints[w]) THEN "lock" ELSE "fetch"]
                   /\ claim_ids' = [claim_ids EXCEPT ![w] =
                                       IF it[w] = Len(outpoints[w]) THEN <<>> ELSE @]
    /\ UNCHANGED <<basevars, handed, m_ids, claimers, cache, m_db, sharedvars,
                   mainvars, in_flight_fetches_count, outpoints, d_pc, enqueued,
                   emplaced, claimed, published>>

\* Lines 106-113: one iteration of the lookup loop, without the mutex.
WorkerFetch(w) ==
    /\ pc[w] = "fetch"
    /\ m_db = "db"
    /\ LET outpoint == outpoints[w][it[w]]
           coin == GetCoin(CoinsDB, outpoint)
       IN  /\ lookups' = [lookups EXCEPT ![outpoint] = @ + 1]
           /\ looked' = [looked EXCEPT ![claim_ids[w][it[w]]] = @ + 1]
           /\ IF coin = NoCoin
              THEN /\ pc' = [pc EXCEPT ![w] = "lock"]
                   /\ claim_ids' = [claim_ids EXCEPT ![w] = <<>>]
                   /\ UNCHANGED <<pairs, it>>
              ELSE /\ pairs' = [pairs EXCEPT ![w] = Append(@, <<outpoint, coin>>)]
                   /\ it' = [it EXCEPT ![w] = @ + 1]
                   /\ pc' = [pc EXCEPT ![w] =
                                IF it[w] = Len(outpoints[w]) THEN "lock" ELSE "fetch"]
                   /\ claim_ids' = [claim_ids EXCEPT ![w] =
                                       IF it[w] = Len(outpoints[w]) THEN <<>> ELSE @]
    /\ UNCHANGED <<basevars, handed, m_ids, claimers, cache, m_db, sharedvars,
                   mainvars, in_flight_fetches_count, outpoints, d_pc, enqueued,
                   emplaced, claimed, published>>

\* A spurious return of m_worker_cv.wait (line 90).
SpuriousWakeWorker(w) ==
    /\ pc[w] = "wait"
    /\ pc' = [pc EXCEPT ![w] = "relock"]
    /\ UNCHANGED <<cfgvars, cache, m_db, sharedvars, mainvars,
                   in_flight_fetches_count, pairs, outpoints, it, d_pc, histvars>>

(* --------------------------- ~InputFetcher ---------------------------- *)

\* Line 227: WITH_LOCK(m_mutex, m_request_stop = true).
DtorStop ==
    /\ d_pc = "alive"
    /\ m_mutex = NoThread
    /\ m_request_stop' = TRUE
    /\ d_pc' = "notify"
    /\ UNCHANGED <<cfgvars, cache, m_db, m_mutex, m_outpoints, m_pairs,
                   m_in_flight_fetches_count, mainvars, workervars, histvars>>

\* Line 228: m_worker_cv.notify_all().
DtorNotify ==
    /\ d_pc = "notify"
    /\ pc' \in NotifyWorkers(TRUE, pc)
    /\ d_pc' = "join"
    /\ UNCHANGED <<cfgvars, cache, m_db, sharedvars, mainvars,
                   in_flight_fetches_count, pairs, outpoints, it, histvars>>

\* Lines 229-231: every thread has been joined.
DtorJoin ==
    /\ d_pc = "join"
    /\ \A w \in ActiveWorkers : pc[w] = "done"
    /\ d_pc' = "destroyed"
    /\ UNCHANGED <<cfgvars, cache, m_db, sharedvars, mainvars, workervars, histvars>>

Init == InitWith(1..MaxBatch)

\* The same with a batch size of 0 as well, which the constructor accepts.
InitAnyBatch == InitWith(0..MaxBatch)

(* ------------------------ a second engine ----------------------------- *)

\* The call has returned; the engine is replaced by one constructed (lines
\* 145-155) with any worker count and the same batch size, and the call is
\* repeated with the same block, store and initial cache.
Restart ==
    /\ run = 1
    /\ fi_pc = "returned"
    /\ d_pc = "alive"
    /\ \A w \in ActiveWorkers : pc[w] = "wait"
    /\ run' = 2
    /\ prev_cache' = cache
    /\ cache' = cache0
    /\ worker_threads' \in 1..MaxWorkers
    /\ m_db' = "null"
    /\ m_mutex' = NoThread
    /\ m_outpoints' = <<>>
    /\ m_pairs' = <<>>
    /\ m_in_flight_fetches_count' = 0
    /\ fi_pc' = "idle"
    /\ txi' = 1 /\ ini' = 1
    /\ buffer' = <<>> /\ txids' = {}
    /\ fi_pairs' = <<>>
    /\ pc' = [w \in Workers |-> IF w <= worker_threads' THEN "lock" ELSE "none"]
    /\ in_flight_fetches_count' = [w \in Workers |-> 0]
    /\ pairs' = [w \in Workers |-> <<>>]
    /\ outpoints' = [w \in Workers |-> <<>>]
    /\ it' = [w \in Workers |-> 1]
    /\ enqueued' = {}
    /\ lookups' = [o \in AllOutpoints |-> 0]
    /\ emplaced' = {}
    /\ claimed' = [w \in Workers |-> <<>>]
    /\ published' = {}
    /\ handed' = 0
    /\ m_ids' = <<>>
    /\ claim_ids' = [w \in Workers |-> <<>>]
    /\ claimers' = [n \in Occurrences |-> 0]
    /\ looked' = [n \in Occurrences |-> 0]
    /\ UNCHANGED <<block, m_batch_size, cache0, m_request_stop, d_pc, kernelvars,
                   validationvars>>

(* ------------------------- a second call ------------------------------ *)

\* FetchInputs has returned at line 205 and the caller calls it again on the
\* same engine (lines 166-167) with the same cache, as the first call left
\* it, and any block.  The workers are wherever the first call left them.
\* The history variables start again: they record the second call.
NextCall ==
    /\ run = 1
    /\ fi_pc = "returned"
    /\ d_pc = "alive"
    /\ run' = 2
    /\ fi_pc' = "idle"
    /\ block' \in Blocks
    /\ cache0' = cache
    /\ enqueued' = {}
    /\ lookups' = [o \in AllOutpoints |-> 0]
    /\ emplaced' = {}
    /\ published' = {}
    /\ handed' = 0
    /\ m_ids' = <<>>
    /\ claim_ids' = [w \in Workers |-> <<>>]
    /\ claimers' = [n \in Occurrences |-> 0]
    /\ looked' = [n \in Occurrences |-> 0]
    /\ UNCHANGED <<worker_threads, m_batch_size, prev_cache, cache, m_db, sharedvars,
                   txi, ini, buffer, txids, fi_pairs, workervars, d_pc, claimed,
                   kernelvars, validationvars>>

(* --------------------------- specification ---------------------------- *)

Producer ==
    \/ FetchInputsEnter
    \/ Scan
    \/ AddLock
    \/ AddPush
    \/ AddNotify
    \/ DrainLock
    \/ DrainCheck
    \/ Insert

Worker(w) ==
    \/ WorkerLock(w)
    \/ WorkerCrit(w)
    \/ WorkerRelock(w)
    \/ WorkerRecheck(w)
    \/ WorkerFetch(w)

Destructor ==
    \/ DtorStop
    \/ DtorNotify
    \/ DtorJoin

SpuriousWake ==
    \/ SpuriousWakeMain
    \/ \E w \in Workers : SpuriousWakeWorker(w)

Next ==
    \/ Producer
    \/ \E w \in Workers : Worker(w)
    \/ Destructor
    \/ SpuriousWake

Spec == Init /\ [][Next]_vars

\* No shutdown: the producer and the workers, scheduled fairly.
NextLive ==
    \/ Producer
    \/ \E w \in Workers : Worker(w)
    \/ SpuriousWake

Fairness ==
    /\ SF_vars(Producer)
    /\ \A w \in Workers : SF_vars(Worker(w))

SpecLive == Init /\ [][NextLive]_vars /\ Fairness

\* No shutdown: the call, then the same call on a second engine.
NextRuns ==
    \/ Producer
    \/ \E w \in Workers : Worker(w)
    \/ SpuriousWake
    \/ Restart

SpecRuns == Init /\ [][NextRuns]_vars

\* No shutdown: a call, then a second call on the same engine.
NextCalls ==
    \/ Producer
    \/ \E w \in Workers : Worker(w)
    \/ SpuriousWake
    \/ NextCall

SpecCalls == Init /\ [][NextCalls]_vars

\* Shutdown at any moment, an engine of any batch size.
SpecAnyBatch == InitAnyBatch /\ [][Next]_vars

\* Shutdown at any moment, every thread scheduled fairly.  The destructor,
\* once it has set the stop flag, goes on to notify and to join; a condition
\* variable owes nobody a spurious wake-up.
FairnessStop ==
    /\ Fairness
    /\ WF_vars(DtorNotify \/ DtorJoin)

\* The blocks whose inputs all reach the queue: every prevout is absent from
\* the cache and from the block, and is in the store (oA) or not (oM).
StopBlocks ==
    {b \in Blocks :
        \A t \in 1..Len(b) : \A i \in 1..Len(b[t].vin) :
            b[t].vin[i] \in {NullOutpoint, oA, oM}}

InitStop == Init /\ block \in StopBlocks

SpecStop == InitStop /\ [][Next]_vars /\ FairnessStop

(* ------------------------ kernel_verify_script ------------------------ *)

fetchervars == <<block, worker_threads, m_batch_size, cache0, run, prev_cache, cache,
                 m_db, sharedvars, mainvars, workervars, d_pc, histvars, occvars>>

\* A call of kernel_verify_script (lines 252-259) with any flags, a null or
\* non-null spent_outputs_ of any length, a transaction of up to MaxVin
\* inputs, any input index, and a null status or a slot holding any value.
VerifyCall ==
    /\ kvs_pc = "idle"
    /\ kvs_pc' = "verify_flags"
    /\ flags' \in CallFlags
    /\ spent_outputs_null' \in BOOLEAN
    /\ spent_outputs_len' \in 0..(MaxVin + 1)
    /\ tx_vin_size' \in 0..MaxVin
    /\ input_index' \in 0..MaxVin
    /\ status_null' \in BOOLEAN
    /\ status' \in IF status_null' THEN {kernel_SCRIPT_VERIFY_OK}
                                   ELSE kernel_ScriptVerifyStatus
    /\ status_in' = status'
    /\ UNCHANGED <<verdict, result, interpreter_calls, txdata_spent_outputs,
                   fetchervars, validationvars>>

\* `if (status) *status = st; return false;`
Fail(st) ==
    /\ status' = IF status_null THEN status ELSE st
    /\ result' = FALSE
    /\ kvs_pc' = "returned"

\* Lines 263-271 with the two flag checks in the other order.
CheckFlagsAfterCombination ==
    /\ kvs_pc = "verify_flags"
    /\ IF ~is_valid_flag_combination(flags)
       THEN Fail(kernel_SCRIPT_VERIFY_ERROR_INVALID_FLAGS_COMBINATION)
       ELSE IF ~verify_flags(flags)
       THEN Fail(kernel_SCRIPT_VERIFY_ERROR_INVALID_FLAGS)
       ELSE /\ kvs_pc' = "flag_combination"
            /\ UNCHANGED <<status, result>>
    /\ UNCHANGED <<flags, spent_outputs_null, spent_outputs_len, tx_vin_size,
                   input_index, status_null, status_in, verdict,
                   interpreter_calls, txdata_spent_outputs, fetchervars, validationvars>>

\* Lines 263-266.
CheckFlags ==
    /\ kvs_pc = "verify_flags"
    /\ IF ~verify_flags(flags)
       THEN Fail(kernel_SCRIPT_VERIFY_ERROR_INVALID_FLAGS)
       ELSE /\ kvs_pc' = "flag_combination"
            /\ UNCHANGED <<status, result>>
    /\ UNCHANGED <<flags, spent_outputs_null, spent_outputs_len, tx_vin_size,
                   input_index, status_null, status_in, verdict,
                   interpreter_calls, txdata_spent_outputs, fetchervars, validationvars>>

\* Lines 268-271.
CheckFlagCombination ==
    /\ kvs_pc = "flag_combination"
    /\ IF ~is_valid_flag_combination(flags)
       THEN Fail(kernel_SCRIPT_VERIFY_ERROR_INVALID_FLAGS_COMBINATION)
       ELSE /\ kvs_pc' = "spent_outputs_required"
            /\ UNCHANGED <<status, result>>
    /\ UNCHANGED <<flags, spent_outputs_null, spent_outputs_len, tx_vin_size,
                   input_index, status_null, status_in, verdict,
                   interpreter_calls, txdata_spent_outputs, fetchervars, validationvars>>

\* Mutant of SpentOutputsRequired: `flags & (TAPROOT && spent_outputs_ ==
\* nullptr)`, which tests bit 0 of flags when the pointer is null.
SpentOutputsRequiredMisparsed ==
    spent_outputs_null /\ BitAnd(flags, Bit(0)) # {}

\* Line 273: `flags & kernel_SCRIPT_FLAGS_VERIFY_TAPROOT && spent_outputs_ ==
\* nullptr`.
SpentOutputsRequired ==
    BitAnd(flags, kernel_SCRIPT_FLAGS_VERIFY_TAPROOT) # {} /\ spent_outputs_null

\* Lines 273-276.
CheckSpentOutputsRequired ==
    /\ kvs_pc = "spent_outputs_required"
    /\ IF SpentOutputsRequired
       THEN Fail(kernel_SCRIPT_VERIFY_ERROR_SPENT_OUTPUTS_REQUIRED)
       ELSE /\ kvs_pc' = "spent_outputs_len"
            /\ UNCHANGED <<status, result>>
    /\ UNCHANGED <<flags, spent_outputs_null, spent_outputs_len, tx_vin_size,
                   input_index, status_null, status_in, verdict,
                   interpreter_calls, txdata_spent_outputs, fetchervars, validationvars>>

\* Mutant of SpentOutputsMismatch: only an array that is too long is refused.
SpentOutputsTooLong == ~spent_outputs_null /\ spent_outputs_len > tx_vin_size

\* Lines 280-281: `spent_outputs_ != nullptr` and `spent_outputs_len !=
\* tx.vin.size()`.
SpentOutputsMismatch == ~spent_outputs_null /\ spent_outputs_len # tx_vin_size

\* Lines 278-290.
CheckSpentOutputsLen ==
    /\ kvs_pc = "spent_outputs_len"
    /\ IF SpentOutputsMismatch
       THEN Fail(kernel_SCRIPT_VERIFY_ERROR_SPENT_OUTPUTS_MISMATCH)
       ELSE /\ kvs_pc' = "input_index"
            /\ UNCHANGED <<status, result>>
    /\ UNCHANGED <<flags, spent_outputs_null, spent_outputs_len, tx_vin_size,
                   input_index, status_null, status_in, verdict,
                   interpreter_calls, txdata_spent_outputs, fetchervars, validationvars>>

\* Lines 292-295.
\* Line 292 with an index that must exceed the input count.
InputIndexPastEnd == input_index > tx_vin_size

\* Line 292: `input_index >= tx.vin.size()`.
InputIndexOutOfRange == input_index >= tx_vin_size

CheckInputIndex ==
    /\ kvs_pc = "input_index"
    /\ IF InputIndexOutOfRange
       THEN Fail(kernel_SCRIPT_VERIFY_ERROR_TX_INPUT_INDEX)
       ELSE /\ kvs_pc' = "interpret"
            /\ UNCHANGED <<status, result>>
    /\ UNCHANGED <<flags, spent_outputs_null, spent_outputs_len, tx_vin_size,
                   input_index, status_null, status_in, verdict,
                   interpreter_calls, txdata_spent_outputs, fetchervars, validationvars>>

\* The verdict of VerifyScript (script/interpreter.cpp): either one.
VerifyScript == BOOLEAN

\* Lines 302-307 returning the negation of the verdict.
ReturnedNegated(v) == ~v

\* Lines 302-307: `return VerifyScript(...)`.
Returned(v) == v

\* Lines 296-307: the precomputed data, seeded with the spent outputs when
\* they were passed and the taproot flag is set, and the interpreter's verdict,
\* which is returned.  *status is not written.
Interpret ==
    /\ kvs_pc = "interpret"
    /\ txdata_spent_outputs' =
          (~spent_outputs_null /\ BitAnd(flags, kernel_SCRIPT_FLAGS_VERIFY_TAPROOT) # {})
    /\ interpreter_calls' = interpreter_calls + 1
    /\ verdict' \in VerifyScript
    /\ result' = Returned(verdict')
    /\ kvs_pc' = "returned"
    /\ UNCHANGED <<flags, spent_outputs_null, spent_outputs_len, tx_vin_size,
                   input_index, status_null, status, status_in, fetchervars, validationvars>>

NextVerify ==
    \/ VerifyCall
    \/ CheckFlags
    \/ CheckFlagCombination
    \/ CheckSpentOutputsRequired
    \/ CheckSpentOutputsLen
    \/ CheckInputIndex
    \/ Interpret

\* The engine plays no part in a call of kernel_verify_script: it is one
\* engine, just constructed, and stays so.
InitVerify ==
    /\ Init
    /\ block = BlockOf(<<oA>>, 1)
    /\ worker_threads = 1
    /\ m_batch_size = 1

SpecVerify == InitVerify /\ [][NextVerify]_vars

(* --------------------------- CValidationState ------------------------- *)

\* What a call of a member did, and the record of it.
Called(c, out) ==
    /\ ops' = Append(ops, c.op)
    /\ call' = c
    /\ state_before' = state
    /\ state' = out.state
    /\ returned' = out.ret
    /\ first_error' = IF c.op = "Error" /\ first_error = <<>>
                      THEN <<[message |-> c.strRejectReasonIn, mode |-> state.mode]>>
                      ELSE first_error
    /\ penalties' = IF c.op = "DoS" THEN penalties + c.level ELSE penalties
    /\ negative_level' = (negative_level \/ (c.op = "DoS" /\ c.level < 0))
    /\ UNCHANGED <<fetchervars, kernelvars>>

\* state.DoS(level, reasonIn, ret, chRejectCodeIn, strRejectReasonIn,
\* corruptionIn, strDebugMessageIn)
DoSCall ==
    /\ Len(ops) < MaxCalls
    /\ \E level \in Levels, reasonIn \in Reasons, ret \in BOOLEAN,
       chRejectCodeIn \in RejectCodes, strRejectReasonIn \in Messages,
       corruptionIn \in BOOLEAN, strDebugMessageIn \in DebugMessages :
        Called(Call("DoS", level, reasonIn, ret, chRejectCodeIn, strRejectReasonIn,
                    corruptionIn, strDebugMessageIn),
               DoS(state, level, reasonIn, ret, chRejectCodeIn, strRejectReasonIn,
                   corruptionIn, strDebugMessageIn))
    /\ UNCHANGED <<nDoSOut, nDoSOut_before>>

\* state.Invalid(_reason, ret, _chRejectCode, _strRejectReason, _strDebugMessage)
InvalidCall ==
    /\ Len(ops) < MaxCalls
    /\ \E _reason \in Reasons, ret \in BOOLEAN, _chRejectCode \in RejectCodes,
       _strRejectReason \in Messages, _strDebugMessage \in DebugMessages :
        Called(Call("Invalid", 0, _reason, ret, _chRejectCode, _strRejectReason,
                    FALSE, _strDebugMessage),
               Invalid(state, _reason, ret, _chRejectCode, _strRejectReason,
                       _strDebugMessage))
    /\ UNCHANGED <<nDoSOut, nDoSOut_before>>

\* state.Error(strRejectReasonIn)
ErrorCall ==
    /\ Len(ops) < MaxCalls
    /\ \E strRejectReasonIn \in Messages :
        Called(Call("Error", 0, "NONE", FALSE, 0, strRejectReasonIn, FALSE, ""),
               Error(state, strRejectReasonIn))
    /\ UNCHANGED <<nDoSOut, nDoSOut_before>>

\* state.SetCorruptionPossible(), which returns nothing.
SetCorruptionPossibleCall ==
    /\ Len(ops) < MaxCalls
    /\ Called(Call("SetCorruptionPossible", 0, "NONE", FALSE, 0, "", FALSE, ""),
              [state |-> SetCorruptionPossible(state), ret |-> returned])
    /\ UNCHANGED <<nDoSOut, nDoSOut_before>>

\* state.IsInvalid(nDoSOut), the caller's variable holding any value.
IsInvalidCall ==
    /\ Len(ops) < MaxCalls
    /\ \E v \in OutValues :
        /\ Called(Call("IsInvalid", 0, "NONE", FALSE, 0, "", FALSE, ""),
                  [state |-> state, ret |-> IsInvalidOut(state, v).ret])
        /\ nDoSOut_before' = v
        /\ nDoSOut' = IsInvalidOut(state, v).nDoSOut

NextValidation ==
    \/ DoSCall
    \/ InvalidCall
    \/ ErrorCall
    \/ SetCorruptionPossibleCall
    \/ IsInvalidCall

SpecValidation == InitVerify /\ [][NextValidation]_vars

(* ------------------------------ claims -------------------------------- *)

InStore(o) == GetCoin(CoinsDB, o) # NoCoin

\* The needed outpoints as the specification defines them: outpoints of inputs
\* of non-coinbase transactions, not cached when FetchInputs was called, whose
\* transaction id is not that of an earlier transaction of the block.
Needed ==
    {block[t].vin[i] : <<t, i>> \in
        {<<t, i>> \in (1..Len(block)) \X (1..MaxInputs) :
            /\ i <= Len(block[t].vin)
            /\ ~IsCoinBase(block[t])
            /\ ~HaveCoinInCache(cache0, block[t].vin[i])
            /\ \A j \in 1..(t - 1) : GetHash(block[j]) # block[t].vin[i].hash}}

\* The outpoints whose cache entry differs from the one the call started with.
Added == {o \in AllOutpoints : cache[o] # cache0[o]}

EnqueuedOutpoints == {e.outpoint : e \in enqueued}
LookedUp == {o \in AllOutpoints : lookups[o] > 0}
EmplacedOutpoints == {e.outpoint : e \in emplaced}
Range(q) == {q[i] : i \in 1..Len(q)}

\* Every outpoint the scan handed to the queue exists in the store.
AllEnqueuedInStore == \A o \in EnqueuedOutpoints : InStore(o)

\* C1 as stated: when FetchInputs returns without shutdown, the outpoints it
\* added to the cache are exactly the needed outpoints that exist in the store.
C1_AddedExactlyNeededInStore ==
    fi_pc = "returned" => Added = {o \in Needed : InStore(o)}

\* C1, amended: when FetchInputs returns without shutdown, every outpoint it
\* added is a needed outpoint that exists in the store, every needed outpoint
\* absent from the store is still uncached, and, provided every outpoint handed
\* to the queue exists in the store, every needed outpoint of the store is cached.
C1_AddedNeededInStore ==
    fi_pc = "returned" =>
        /\ Added \subseteq {o \in Needed : InStore(o)}
        /\ \A o \in Added : HaveCoinInCache(cache, o)
        /\ \A o \in Needed : ~InStore(o) => ~HaveCoinInCache(cache, o)
        /\ AllEnqueuedInStore =>
              \A o \in Needed : InStore(o) => HaveCoinInCache(cache, o)

C1_Witness ==
    /\ fi_pc = "returned"
    /\ AllEnqueuedInStore
    /\ Added = {oA, oB}

\* C2 as stated: the second engine's call returns with the cache the first
\* engine's call returned with, whatever the worker counts and interleavings.
C2_SameCacheAnyWorkers ==
    (run = 2 /\ fi_pc = "returned") => cache = prev_cache

\* C2, amended: the same, provided every outpoint handed to the queue exists
\* in the store.
C2_SameCacheWhenAllInStore ==
    (run = 2 /\ fi_pc = "returned" /\ AllEnqueuedInStore) => cache = prev_cache

C2_Witness ==
    /\ run = 2
    /\ fi_pc = "returned"
    /\ AllEnqueuedInStore
    /\ worker_threads = 2
    /\ Added = {oA, oB}

RECURSIVE SumClaimed(_)
SumClaimed(ws) ==
    IF ws = {} THEN 0
    ELSE LET w == CHOOSE x \in ws : TRUE
         IN  Len(claimed[w]) + SumClaimed(ws \ {w})

\* C3: whenever the mutex is free, the in-flight counter is non-negative and
\* equals the length of m_outpoints plus the sizes of the batches the workers
\* have claimed and not merged yet.
C3_InFlightAccounting ==
    m_mutex = NoThread =>
        /\ m_in_flight_fetches_count >= 0
        /\ m_in_flight_fetches_count = Len(m_outpoints) + SumClaimed(Workers)

\* A worker stopped early on a missing coin and still holds its batch of two,
\* while another outpoint is queued or held.
C3_Witness ==
    /\ m_mutex = NoThread
    /\ \E w \in ActiveWorkers :
          /\ pc[w] = "lock"
          /\ Len(claimed[w]) = 2
          /\ Len(pairs[w]) < 2

\* C4: without shutdown and under fair scheduling, FetchInputs returns.
C4_FetchInputsReturns == <>(fi_pc = "returned")

C4_Witness ==
    /\ fi_pc = "returned"
    /\ lookups[oM] > 0
    /\ lookups[oA] > 0

\* C5: when FetchInputs has returned without shutdown, nothing is in flight,
\* both queues are empty, every pair ever merged has been inserted, no worker
\* holds a batch or is in a lookup; and no lookup happens from then on.
C5_QuiescentAtReturn ==
    /\ [](fi_pc = "returned" =>
            /\ m_in_flight_fetches_count = 0
            /\ m_outpoints = <<>>
            /\ m_pairs = <<>>
            /\ published \subseteq {<<e.outpoint, e.coin>> : e \in emplaced}
            /\ \A w \in ActiveWorkers : claimed[w] = <<>> /\ pc[w] # "fetch")
    /\ [][fi_pc = "returned" => lookups' = lookups]_vars

C5_Witness ==
    /\ fi_pc = "returned"
    /\ worker_threads = 2
    /\ published # {}
    /\ lookups[oM] > 0

\* C6: no outpoint is enqueued, and so none is looked up, for an input whose
\* transaction id is that of a transaction at an earlier position of the block,
\* the coinbase included.
C6_NoSameBlockLookup ==
    /\ \A e \in enqueued :
          \A j \in 1..(e.tx - 1) : GetHash(block[j]) # e.outpoint.hash
    /\ LookedUp \subseteq EnqueuedOutpoints

\* C7: the store is looked up at most once per outpoint.
C7_AtMostOneLookup == \A o \in AllOutpoints : lookups[o] <= 1

CoinbaseOutpoints ==
    {block[t].vin[1] : t \in {t \in 1..Len(block) : IsCoinBase(block[t])}}
CachedAtCall == {o \in AllOutpoints : HaveCoinInCache(cache0, o)}

\* C8: nothing enqueued, queued, claimed, looked up or inserted is the outpoint
\* of a coinbase input or was cached when the call started, and the entries
\* cached at that time are unchanged.
C8_CoinbaseAndCachedUntouched ==
    /\ \A e \in enqueued : ~IsCoinBase(block[e.tx])
    /\ (EnqueuedOutpoints \cup Range(buffer) \cup Range(m_outpoints) \cup LookedUp
           \cup EmplacedOutpoints \cup UNION {Range(outpoints[w]) : w \in Workers})
         \cap (CoinbaseOutpoints \cup CachedAtCall) = {}
    /\ \A o \in CachedAtCall : cache[o] = cache0[o]

C8_Witness ==
    /\ fi_pc = "returned"
    /\ \E i \in 1..Len(block[2].vin) : block[2].vin[i] = oK
    /\ emplaced # {}

\* C9: every insertion is clean, under the outpoint that was looked up, with
\* the coin the store holds for it.
C9_InsertedCleanFromStore ==
    \A e \in emplaced :
        /\ e.dirty = FALSE
        /\ InStore(e.outpoint)
        /\ e.coin = GetCoin(CoinsDB, e.outpoint)
        /\ lookups[e.outpoint] > 0
        /\ cache[e.outpoint] = [coin |-> e.coin, dirty |-> FALSE]

C9_Witness ==
    /\ fi_pc = "returned"
    /\ EmplacedOutpoints = {oA, oB}

\* C10: a step changes the cache only if it is the producer's insertion of the
\* pairs it took out of m_pairs, made without the mutex and after the scan of
\* the block has ended; no step of a worker changes it.
C10_OnlyProducerInserts ==
    [][cache' # cache =>
          /\ fi_pc = "insert"
          /\ m_mutex # MainThread
          /\ txi > Len(block)
          /\ buffer = <<>>
          /\ cache' = EmplaceAll(cache, fi_pairs)
          /\ Range(fi_pairs) \subseteq published
          /\ pc' = pc
          /\ m_pairs' = m_pairs]_vars

C10_Witness ==
    /\ emplaced # {}
    /\ \E w \in ActiveWorkers : pc[w] = "fetch"

(* C11: no thread holds the engine mutex while it performs a lookup in the
   store: a worker that is inside the lookup loop does not own the mutex, and
   whoever owns the mutex is at a position inside a critical section, whose
   next step releases it, so the producer and the other workers can acquire
   the mutex while lookups run. *)
C11_NoLookupUnderMutex ==
    /\ \A w \in ActiveWorkers :
          /\ pc[w] = "fetch" => m_mutex # WorkerThread(w)
          /\ m_mutex = WorkerThread(w) <=> pc[w] \in {"crit", "recheck"}
    /\ m_mutex = MainThread <=> fi_pc \in {"add_push", "drain_check"}

\* A worker is in the middle of its lookups while the producer owns the mutex
\* and another worker is in the middle of its own lookups.
C11_Witness ==
    /\ worker_threads = 2
    /\ pc[1] = "fetch" /\ it[1] = 1
    /\ pc[2] = "fetch"
    /\ m_mutex = MainThread

(* C12: once the destructor has set the stop flag and notified the workers,
   every worker eventually leaves Loop and the join completes. *)
C12_WorkersLeaveOnStop == (d_pc = "join") ~> (d_pc = "destroyed")

\* The join has completed for two workers that did lookups, and outpoints
\* nobody will fetch are still queued.
C12_Witness ==
    /\ d_pc = "destroyed"
    /\ worker_threads = 2
    /\ \A w \in ActiveWorkers : pc[w] = "done"
    /\ m_outpoints # <<>>
    /\ \E o \in AllOutpoints : lookups[o] > 0

(* C13: if shutdown is requested while the producer is blocked in the wait of
   FetchInputs with work in flight and no results queued, the producer
   eventually stops waiting and FetchInputs returns. *)
C13_ProducerReturnsOnStop ==
    (/\ m_request_stop
     /\ fi_pc = "main_wait"
     /\ m_in_flight_fetches_count > 0
     /\ m_pairs = <<>>) ~> (fi_pc \in {"stopped", "returned"})

(* C14: once shutdown has been requested, the producer takes nothing more out
   of m_pairs, the only coins that still reach the cache are the ones it had
   already moved into its local `pairs`, and when it reads the flag in the
   drain loop it returns, whatever m_pairs holds. *)
C14_NoInsertAfterStop ==
    [][m_request_stop =>
         /\ fi_pairs' = fi_pairs
         /\ cache' # cache => fi_pc = "insert" /\ cache' = EmplaceAll(cache, fi_pairs)
         /\ (fi_pc = "drain_check" /\ fi_pc' # fi_pc) => fi_pc' = "stopped"]_vars

\* The producer has returned on the stop flag and left fetched coins in
\* m_pairs, outside the cache.
C14_Witness ==
    /\ m_request_stop
    /\ fi_pc = "stopped"
    /\ m_pairs # <<>>
    /\ \E i \in 1..Len(m_pairs) : ~HaveCoinInCache(cache, m_pairs[i][1])

\* What the scan of lines 173-197 hands to Add, from transaction t, input i
\* on, on an engine that has served no call: it depends on the block and on
\* the cache the call started with only.
RECURSIVE FreshEnqueued(_, _, _)
FreshEnqueued(t, i, ids) ==
    IF t > Len(block) THEN {}
    ELSE IF IsCoinBase(block[t]) THEN FreshEnqueued(t + 1, 1, ids)
    ELSE IF i > Len(block[t].vin)
    THEN FreshEnqueued(t + 1, 1, ids \cup {GetHash(block[t])})
    ELSE LET outpoint == block[t].vin[i] IN
         (IF outpoint.hash \in ids \/ HaveCoinInCache(cache0, outpoint)
          THEN {} ELSE {outpoint})
            \cup FreshEnqueued(t, i + 1, ids)

FreshCall == FreshEnqueued(1, 1, {})

\* The cache a call on a fresh engine returns with when every outpoint of
\* FreshCall exists in the store.
FreshCache ==
    [o \in AllOutpoints |->
        IF o \in FreshCall THEN [coin |-> GetCoin(CoinsDB, o), dirty |-> FALSE]
        ELSE cache0[o]]

\* The outpoints the engine holds anywhere: queued, claimed, fetched, merged
\* or taken by the producer and not inserted yet.
HeldOutpoints ==
    Range(m_outpoints) \cup {p[1] : p \in Range(m_pairs)}
        \cup (IF fi_pc = "insert" THEN {p[1] : p \in Range(fi_pairs)} ELSE {})
        \cup UNION {Range(claimed[w]) : w \in ActiveWorkers}
        \cup UNION {{p[1] : p \in Range(pairs[w])} : w \in ActiveWorkers}

(* C15: a second FetchInputs call on the same engine (no shutdown) behaves as
   on a fresh engine.  When it starts, the engine holds no work of the first
   call; during it, every outpoint queued, looked up, merged or inserted is
   one a fresh engine's scan of this block hands to the workers (so nothing
   of the first call is looked up or inserted, and no transaction id of the
   first block makes the scan skip an input); when it returns, it has handed
   over exactly those, and, provided all of them exist in the store, it has
   looked up exactly those and the cache is the one a fresh engine yields. *)
C15_SecondCallAsFresh ==
    run = 2 =>
        /\ fi_pc = "idle" =>
              /\ HeldOutpoints = {}
              /\ m_in_flight_fetches_count = 0
              /\ \A w \in ActiveWorkers : pc[w] # "fetch"
        /\ fi_pc # "idle" =>
              /\ EnqueuedOutpoints \subseteq FreshCall
              /\ HeldOutpoints \subseteq EnqueuedOutpoints
              /\ LookedUp \subseteq EnqueuedOutpoints
              /\ EmplacedOutpoints \subseteq EnqueuedOutpoints
        /\ fi_pc = "returned" =>
              /\ EnqueuedOutpoints = FreshCall
              /\ Added \subseteq {o \in FreshCall : InStore(o)}
              /\ (\A o \in FreshCall : InStore(o)) =>
                    /\ LookedUp = FreshCall
                    /\ cache = FreshCache

\* The second call has returned: the first call had added a coin, the second
\* block spends an output of a transaction id the first block contained, and
\* the second call looked that outpoint up and added another coin.
C15_Witness ==
    /\ run = 2
    /\ fi_pc = "returned"
    /\ cache0 # InitialCache
    /\ lookups[oD] > 0
    /\ Added # {}
    /\ worker_threads = 2

\* Whether some bit of the flags is outside the flags kernel_ScriptFlags lists.
UnrecognizedFlags == flags \ kernel_SCRIPT_FLAGS_VERIFY_ALL # {}

\* The call has returned false and, when a status slot was passed, the slot
\* holds st.
ReturnedFalseWith(st) ==
    /\ result = FALSE
    /\ ~status_null => status = st

(* C16 as stated: a call whose flags are the clean stack flag alone returns
   false with status invalid-flag-combination, and the interpreter is not
   invoked. *)
C16_CleanStackAloneCombination ==
    (kvs_pc = "returned" /\ flags = SCRIPT_VERIFY_CLEANSTACK) =>
        /\ ReturnedFalseWith(kernel_SCRIPT_VERIFY_ERROR_INVALID_FLAGS_COMBINATION)
        /\ interpreter_calls = 0

(* C16, amended: a call whose flags are the clean stack flag alone returns
   false with status invalid-flags, the clean stack flag being outside the
   recognized flags, and the interpreter is not invoked. *)
C16_CleanStackAloneInvalidFlags ==
    (kvs_pc = "returned" /\ flags = SCRIPT_VERIFY_CLEANSTACK) =>
        /\ ReturnedFalseWith(kernel_SCRIPT_VERIFY_ERROR_INVALID_FLAGS)
        /\ interpreter_calls = 0

\* Such a call has returned, with every other argument in order and a status
\* slot that held OK.
C16_Witness ==
    /\ kvs_pc = "returned"
    /\ flags = SCRIPT_VERIFY_CLEANSTACK
    /\ ~status_null
    /\ status = kernel_SCRIPT_VERIFY_ERROR_INVALID_FLAGS
    /\ ~spent_outputs_null /\ spent_outputs_len = tx_vin_size
    /\ input_index < tx_vin_size

(* C17: a call whose flags have a bit outside the recognized flags returns
   false with status invalid-flags whatever the other arguments are, and the
   interpreter is not invoked at any point of the call. *)
C17_UnrecognizedFlagsInvalid ==
    UnrecognizedFlags =>
        /\ interpreter_calls = 0
        /\ kvs_pc = "returned" =>
              ReturnedFalseWith(kernel_SCRIPT_VERIFY_ERROR_INVALID_FLAGS)

\* A call with bit 31 set has returned; its flags also put witness without
\* P2SH, its spent outputs are missing though taproot is set, and its input
\* index is out of range.
C17_Witness ==
    /\ kvs_pc = "returned"
    /\ flags = UNION {Bit(31), kernel_SCRIPT_FLAGS_VERIFY_WITNESS,
                      kernel_SCRIPT_FLAGS_VERIFY_TAPROOT}
    /\ spent_outputs_null
    /\ input_index >= tx_vin_size
    /\ ~status_null
    /\ status = kernel_SCRIPT_VERIFY_ERROR_INVALID_FLAGS

(* C18: a call whose flags are all recognized and contain the witness flag
   without the P2SH flag returns false with status invalid-flag-combination
   whatever the spent outputs and the input index are, and the interpreter is
   not invoked. *)
C18_WitnessWithoutP2SH ==
    (/\ ~UnrecognizedFlags
     /\ kernel_SCRIPT_FLAGS_VERIFY_WITNESS \subseteq flags
     /\ ~(kernel_SCRIPT_FLAGS_VERIFY_P2SH \subseteq flags)) =>
        /\ interpreter_calls = 0
        /\ kvs_pc = "returned" =>
              ReturnedFalseWith(kernel_SCRIPT_VERIFY_ERROR_INVALID_FLAGS_COMBINATION)

\* Such a call has returned: witness and taproot without P2SH, no spent
\* outputs, an input index out of range.
C18_Witness ==
    /\ kvs_pc = "returned"
    /\ flags = BitOr(kernel_SCRIPT_FLAGS_VERIFY_WITNESS,
                     kernel_SCRIPT_FLAGS_VERIFY_TAPROOT)
    /\ spent_outputs_null
    /\ input_index >= tx_vin_size
    /\ ~status_null
    /\ status = kernel_SCRIPT_VERIFY_ERROR_INVALID_FLAGS_COMBINATION

\* The flags pass the checks of lines 263-271.
FlagsPass == verify_flags(flags) /\ is_valid_flag_combination(flags)

(* C19: a call whose flags pass both flag checks and contain the taproot flag,
   made with a null spent_outputs, returns false with status
   spent-outputs-required for any input index; so does the call whose flags
   are the taproot flag alone. *)
C19_TaprootNeedsSpentOutputs ==
    (/\ kvs_pc = "returned"
     /\ FlagsPass
     /\ kernel_SCRIPT_FLAGS_VERIFY_TAPROOT \subseteq flags
     /\ spent_outputs_null) =>
        ReturnedFalseWith(kernel_SCRIPT_VERIFY_ERROR_SPENT_OUTPUTS_REQUIRED)

\* The call with the taproot flag alone, a null array of outputs and an input
\* index out of range has returned.
C19_Witness ==
    /\ kvs_pc = "returned"
    /\ flags = kernel_SCRIPT_FLAGS_VERIFY_TAPROOT
    /\ spent_outputs_null
    /\ input_index >= tx_vin_size
    /\ ~status_null
    /\ status = kernel_SCRIPT_VERIFY_ERROR_SPENT_OUTPUTS_REQUIRED

(* C20: a call whose flags pass both flag checks and whose spent_outputs is
   not null and has a length other than the transaction's number of inputs
   returns false with status spent-outputs-mismatch, with or without the
   taproot flag and whatever the input index is. *)
C20_SpentOutputsLengthMismatch ==
    (/\ kvs_pc = "returned"
     /\ FlagsPass
     /\ ~spent_outputs_null
     /\ spent_outputs_len # tx_vin_size) =>
        ReturnedFalseWith(kernel_SCRIPT_VERIFY_ERROR_SPENT_OUTPUTS_MISMATCH)

\* Such a call has returned: no taproot flag, an array shorter than the
\* inputs, an input index in range.
C20_Witness ==
    /\ kvs_pc = "returned"
    /\ flags = kernel_SCRIPT_FLAGS_VERIFY_P2SH
    /\ ~spent_outputs_null
    /\ spent_outputs_len < tx_vin_size
    /\ input_index < tx_vin_size
    /\ ~status_null
    /\ status = kernel_SCRIPT_VERIFY_ERROR_SPENT_OUTPUTS_MISMATCH


\* The pre-checks of spec section 4.3 on the arguments of the call, stated on
\* the arguments alone.
TaprootWithoutSpentOutputs ==
    17 \in flags /\ spent_outputs_null
SpentOutputsLenDiffers ==
    ~spent_outputs_null /\ spent_outputs_len # tx_vin_size

\* C21: every call that passes the flag and spent-outputs pre-checks with an
\* input index greater than or equal to the transaction's input count (a
\* transaction without inputs included) returns false with the status
\* bad-input-index, and the interpreter is not invoked.
C21_BadInputIndex ==
    (/\ kvs_pc = "returned"
     /\ FlagsPass
     /\ ~TaprootWithoutSpentOutputs
     /\ ~SpentOutputsLenDiffers
     /\ input_index >= tx_vin_size)
    => /\ ReturnedFalseWith(kernel_SCRIPT_VERIFY_ERROR_TX_INPUT_INDEX)
       /\ interpreter_calls = 0

\* A call for input 0 of a transaction without inputs has returned.
C21_Witness ==
    /\ kvs_pc = "returned"
    /\ FlagsPass
    /\ ~TaprootWithoutSpentOutputs
    /\ ~SpentOutputsLenDiffers
    /\ tx_vin_size = 0
    /\ input_index = 0
    /\ ~status_null
    /\ status = kernel_SCRIPT_VERIFY_ERROR_TX_INPUT_INDEX
    /\ result = FALSE

\* The status of the first pre-check the arguments violate, in the order
\* invalid-flags, invalid-flag-combination, spent-outputs-required,
\* spent-outputs-mismatch, bad-input-index; OK when they violate none.
FirstViolated ==
    IF UnrecognizedFlags
    THEN kernel_SCRIPT_VERIFY_ERROR_INVALID_FLAGS
    ELSE IF ~is_valid_flag_combination(flags)
    THEN kernel_SCRIPT_VERIFY_ERROR_INVALID_FLAGS_COMBINATION
    ELSE IF TaprootWithoutSpentOutputs
    THEN kernel_SCRIPT_VERIFY_ERROR_SPENT_OUTPUTS_REQUIRED
    ELSE IF SpentOutputsLenDiffers
    THEN kernel_SCRIPT_VERIFY_ERROR_SPENT_OUTPUTS_MISMATCH
    ELSE IF input_index >= tx_vin_size
    THEN kernel_SCRIPT_VERIFY_ERROR_TX_INPUT_INDEX
    ELSE kernel_SCRIPT_VERIFY_OK

\* The number of pre-checks the arguments violate.
ViolatedCount ==
    Cardinality({c \in 1..5 :
        \/ c = 1 /\ UnrecognizedFlags
        \/ c = 2 /\ ~is_valid_flag_combination(flags)
        \/ c = 3 /\ TaprootWithoutSpentOutputs
        \/ c = 4 /\ SpentOutputsLenDiffers
        \/ c = 5 /\ input_index >= tx_vin_size})

\* C22: when the arguments violate several pre-checks, the status is that of
\* the first violated one in the order invalid-flags,
\* invalid-flag-combination, spent-outputs-required, spent-outputs-mismatch,
\* bad-input-index; a call that violates a pre-check returns false without
\* reaching the interpreter, which is reached only when all five pass.
C22_FirstViolatedReported ==
    /\ interpreter_calls > 0 => FirstViolated = kernel_SCRIPT_VERIFY_OK
    /\ kvs_pc = "returned" =>
          IF FirstViolated # kernel_SCRIPT_VERIFY_OK
          THEN ReturnedFalseWith(FirstViolated) /\ interpreter_calls = 0
          ELSE interpreter_calls = 1

\* A call that violates three pre-checks at once, the first and the last
\* among them, has returned.
C22_Witness ==
    /\ kvs_pc = "returned"
    /\ ViolatedCount >= 3
    /\ UnrecognizedFlags
    /\ input_index >= tx_vin_size
    /\ ~status_null
    /\ status = kernel_SCRIPT_VERIFY_ERROR_INVALID_FLAGS
    /\ result = FALSE

\* C23 as stated: whenever all pre-checks pass the verifier returns the
\* interpreter's verdict and the status slot holds OK on return, whatever it
\* held when the call was made; a non-OK status on return means that a
\* pre-check of this call failed.
C23_StatusOkOnSuccess ==
    (kvs_pc = "returned" /\ ~status_null) =>
        /\ interpreter_calls > 0 =>
              result = verdict /\ status = kernel_SCRIPT_VERIFY_OK
        /\ status # kernel_SCRIPT_VERIFY_OK => interpreter_calls = 0

\* C23: whenever all pre-checks pass the verifier returns the interpreter's
\* verdict and leaves the status slot as it was when the call was made; when
\* the slot held OK at the call, it holds OK on return, a false result with
\* the status OK means that the interpreter rejected the script, and a non-OK
\* status means that a pre-check of this call failed.
C23_StatusKeptOnSuccess ==
    kvs_pc = "returned" =>
        /\ interpreter_calls > 0 => result = verdict /\ status = status_in
        /\ (~status_null /\ status_in = kernel_SCRIPT_VERIFY_OK) =>
              /\ interpreter_calls > 0 => status = kernel_SCRIPT_VERIFY_OK
              /\ (result = FALSE /\ status = kernel_SCRIPT_VERIFY_OK) =>
                    (interpreter_calls > 0 /\ verdict = FALSE)
              /\ status # kernel_SCRIPT_VERIFY_OK => interpreter_calls = 0

\* The interpreter rejected the script of a call whose slot held OK.
C23_Witness ==
    /\ kvs_pc = "returned"
    /\ ~status_null
    /\ status_in = kernel_SCRIPT_VERIFY_OK
    /\ interpreter_calls = 1
    /\ verdict = FALSE
    /\ result = FALSE
    /\ status = kernel_SCRIPT_VERIFY_OK


\* The members called so far.
OpsCalled == {ops[i] : i \in 1..Len(ops)}

\* Error has been called, and every call made after the first Error call
\* is an Error call too.
OnlyErrorsSinceFirst ==
    \E i \in 1..Len(ops) :
        /\ ops[i] = "Error"
        /\ \A j \in 1..Len(ops) : (j < i => ops[j] # "Error") /\ (j > i => ops[j] = "Error")

\* C24: once Error has been called, the outcome is in Error, neither
\* Invalid nor Valid, after every later call, and a later Invalid or DoS
\* call leaves the ban-score as it was.
C24_ErrorDominates ==
    first_error # <<>> =>
        /\ IsError(state) /\ ~IsInvalid(state) /\ ~IsValid(state)
        /\ (call.op \in {"DoS", "Invalid"}) => GetDoS(state) = GetDoS(state_before)

\* DoS with level 20 has been called after Error on an outcome whose score
\* was 10.
C24_Witness ==
    /\ first_error # <<>>
    /\ call.op = "DoS"
    /\ call.level = 20
    /\ GetDoS(state_before) = 10
    /\ GetDoS(state) = 10
    /\ IsError(state)

\* C25: after a sequence of DoS and Invalid calls on a fresh outcome, with
\* no Error call, the score is the sum of the levels passed (Invalid counts
\* as 0) and IsInvalid() is true.
C25_ScoreIsSumOfPenalties ==
    (ops # <<>> /\ OpsCalled \subseteq {"DoS", "Invalid"}) =>
        /\ GetDoS(state) = penalties
        /\ IsInvalid(state)

\* DoS with level 10 and then DoS with level 20 have given the score 30.
C25_Witness ==
    /\ ops = <<"DoS", "DoS">>
    /\ GetDoS(state_before) = 10
    /\ call.level = 20
    /\ GetDoS(state) = 30
    /\ IsInvalid(state)

\* The steps of the mode that move forward, and those that leave it alone.
ModeForward ==
    {<<MODE_VALID, MODE_INVALID>>, <<MODE_VALID, MODE_ERROR>>,
     <<MODE_INVALID, MODE_ERROR>>,
     <<MODE_VALID, MODE_VALID>>, <<MODE_INVALID, MODE_INVALID>>,
     <<MODE_ERROR, MODE_ERROR>>}

\* The step of the mode is one of them.
ModeStep == (state.mode :> state'.mode) \in {m[1] :> m[2] : m \in ModeForward}

\* C26: over any sequence of DoS, Invalid, Error and SetCorruptionPossible
\* calls the mode only moves forward: a call changes it from Valid to
\* Invalid, from Valid to Error or from Invalid to Error, or leaves it
\* alone; an Invalid outcome never becomes Valid and an Error outcome stays
\* in Error.
C26_ModeOnlyMovesForward ==
    [][ModeStep]_vars

\* An outcome that was Valid and then Invalid is in Error.
C26_Witness ==
    /\ Len(ops) = 2
    /\ state_before.mode = MODE_INVALID
    /\ state.mode = MODE_ERROR

\* C27: a DoS call made in Error leaves the mode and the score as they
\* were, whatever the level, stores the reason, the reject code, the reject
\* message and the debug message passed, and returns ret.
C27_DoSInError ==
    (call.op = "DoS" /\ IsError(state_before)) =>
        /\ state.mode = state_before.mode
        /\ GetDoS(state) = GetDoS(state_before)
        /\ state.reason = call.reasonIn
        /\ state.chRejectCode = call.chRejectCodeIn
        /\ state.strRejectReason = call.strRejectReasonIn
        /\ state.strDebugMessage = call.strDebugMessageIn
        /\ returned = call.ret

\* A DoS call made in Error with ret = true has replaced the reject message
\* and the reason.
C27_Witness ==
    /\ call.op = "DoS"
    /\ IsError(state_before)
    /\ call.ret
    /\ returned
    /\ call.level # 0
    /\ state.strRejectReason # state_before.strRejectReason
    /\ state.reason # state_before.reason
    /\ state_before.reason # "NONE"

\* C28: a DoS call made in Valid or Invalid adds the level to the score,
\* sets the mode to Invalid, stores the reason, the reject code, the reject
\* message and the corruption flag passed, and returns ret.
C28_DoSPenalizes ==
    (call.op = "DoS" /\ (IsValid(state_before) \/ IsInvalid(state_before))) =>
        /\ GetDoS(state) = GetDoS(state_before) + call.level
        /\ IsInvalid(state)
        /\ state.reason = call.reasonIn
        /\ state.chRejectCode = call.chRejectCodeIn
        /\ state.strRejectReason = call.strRejectReasonIn
        /\ state.corruptionPossible = call.corruptionIn
        /\ returned = call.ret

\* A DoS call with ret = true has been made on a Valid outcome, and another
\* on an Invalid one.
C28_Witness ==
    /\ ops = <<"DoS", "DoS">>
    /\ GetDoS(state_before) = 10
    /\ call.level = 20
    /\ call.corruptionIn
    /\ call.ret
    /\ returned
    /\ GetDoS(state) = 30

\* C29: from every state, Invalid(reason, ret, code, message, debug) leaves
\* the object as DoS(0, reason, ret, code, message, false, debug) does, and
\* returns what it returns.
C29_InvalidIsDoSZero ==
    call.op = "Invalid" =>
        [state |-> state, ret |-> returned]
            = DoS(state_before, 0, call.reasonIn, call.ret, call.chRejectCodeIn,
                  call.strRejectReasonIn, FALSE, call.strDebugMessageIn)

\* Invalid has been called in Error on an outcome whose corruption flag was
\* set.
C29_Witness ==
    /\ call.op = "Invalid"
    /\ IsError(state_before)
    /\ state_before.corruptionPossible
    /\ ~state.corruptionPossible
    /\ call.ret
    /\ returned

\* C30 as stated: Error returns false and puts the outcome in Error; the
\* message of the first Error call, made from Valid or from Invalid, is the
\* stored reject message afterwards and across later Error calls.
C30_FirstErrorMessageStored ==
    /\ call.op = "Error" => ~returned /\ IsError(state)
    /\ OnlyErrorsSinceFirst => GetRejectReason(state) = first_error[1].message

\* C30: Error returns false and puts the outcome in Error; it stores its
\* message when the outcome is Valid and leaves the stored reject message
\* alone otherwise; the message of a first Error call made from Valid is
\* the stored reject message afterwards and across later Error calls.
C30_ErrorMessageFromValid ==
    /\ call.op = "Error" =>
          /\ ~returned
          /\ IsError(state)
          /\ GetRejectReason(state) =
                IF IsValid(state_before) THEN call.strRejectReasonIn
                                         ELSE GetRejectReason(state_before)
    /\ (OnlyErrorsSinceFirst /\ first_error[1].mode = MODE_VALID) =>
          GetRejectReason(state) = first_error[1].message

\* A second Error call with another message has been made on an outcome
\* whose first Error call was made from Valid.
C30_Witness ==
    /\ OnlyErrorsSinceFirst
    /\ first_error[1].mode = MODE_VALID
    /\ call.op = "Error"
    /\ IsError(state_before)
    /\ call.strRejectReasonIn # first_error[1].message
    /\ GetRejectReason(state) = first_error[1].message


\* C31: IsInvalid(outScore) returns true and writes the score to outScore
\* exactly when the mode is Invalid; in Valid and in Error it returns false
\* and leaves outScore as it was, whatever score the outcome holds.
C31_IsInvalidWritesScoreOnlyWhenInvalid ==
    call.op = "IsInvalid" =>
        /\ state = state_before
        /\ IF state.mode = MODE_INVALID
           THEN returned /\ nDoSOut = GetDoS(state)
           ELSE ~returned /\ nDoSOut = nDoSOut_before

\* IsInvalid has been called on an outcome that went to Error with the
\* score 20, the caller's variable holding 99.
C31_Witness ==
    /\ call.op = "IsInvalid"
    /\ IsError(state)
    /\ GetDoS(state) = 20
    /\ ~returned
    /\ nDoSOut_before = 99
    /\ nDoSOut = 99

\* C32: once CorruptionPossible() is true it stays true after every later
\* DoS, Invalid and Error call.
C32_CorruptionFlagMonotonic ==
    (CorruptionPossible(state_before) /\ call.op \in {"DoS", "Invalid", "Error"}) =>
        CorruptionPossible(state)

\* The last call did not lower the score, and the score is not negative.
ScoreStep ==
    /\ GetDoS(state) >= GetDoS(state_before)
    /\ GetDoS(state) >= 0

WitnessWithoutP2SH == 11 \in flags /\ 0 \notin flags

\* The statuses of the two flag pre-checks.
FlagStatuses ==
    {kernel_SCRIPT_VERIFY_ERROR_INVALID_FLAGS,
     kernel_SCRIPT_VERIFY_ERROR_INVALID_FLAGS_COMBINATION}

\* C40: for flags inside the recognized set, the call fails with
\* invalid-flag-combination if and only if the witness flag is set without
\* the P2SH flag; every other recognized flag set passes both flag
\* pre-checks: the call goes on to the spent-outputs checks, and where it
\* fails it fails with the status of a later pre-check.
C40_CombinationIffWitnessWithoutP2SH ==
    ~UnrecognizedFlags =>
        /\ kvs_pc # "idle" => verify_flags(flags)
        /\ kvs_pc \in {"spent_outputs_required", "spent_outputs_len", "input_index",
                       "interpret"} => ~WitnessWithoutP2SH
        /\ kvs_pc = "returned" =>
              IF WitnessWithoutP2SH
              THEN /\ ReturnedFalseWith(kernel_SCRIPT_VERIFY_ERROR_INVALID_FLAGS_COMBINATION)
                   /\ interpreter_calls = 0
              ELSE \/ interpreter_calls = 1
                   \/ /\ result = FALSE
                      /\ ~status_null => status \notin FlagStatuses

\* The taproot flag alone, without the witness flag, has passed both flag
\* pre-checks.
C40_Witness ==
    /\ flags = kernel_SCRIPT_FLAGS_VERIFY_TAPROOT
    /\ kvs_pc = "spent_outputs_required"


\* Worker w claims a batch in this step (lines 96-101).
Claims(w) == pc[w] \in {"crit", "recheck"} /\ pc'[w] = "fetch"

\* C34: each time a worker claims work, the number of outpoints it removes
\* from the shared queue is max(1, min(batch_size, queue_length, in_flight /
\* worker_count)), with the queue and the counter as they are at the claim;
\* it is at least 1 and at most the queue length, and the outpoints removed
\* are the last ones of the queue.
C34_ClaimSizeFormula ==
    [][\A w \in Workers : Claims(w) =>
          LET qlen == Len(m_outpoints)
              removed == qlen - Len(m_outpoints')
              share == m_in_flight_fetches_count' \div worker_threads
          IN  /\ removed = Max(1, Min(m_batch_size, Min(qlen, share)))
              /\ removed >= 1
              /\ removed <= qlen
              /\ m_outpoints' = SubSeq(m_outpoints, 1, qlen - removed)
              /\ outpoints'[w] = SubSeq(m_outpoints, qlen - removed + 1, qlen)]_vars

\* A worker of an engine with batch size 0 has claimed one of two queued
\* outpoints.
C34_Witness ==
    /\ m_batch_size = 0
    /\ \E w \in Workers :
          /\ pc[w] = "fetch"
          /\ it[w] = 1
          /\ Len(outpoints[w]) = 1
          /\ Len(m_outpoints) = 1

\* The index of the first outpoint of a batch that the store lacks; the
\* length of the batch plus one when it lacks none.
FirstMissing(b) ==
    IF \E i \in 1..Len(b) : ~InStore(b[i])
    THEN CHOOSE i \in 1..Len(b) :
            ~InStore(b[i]) /\ \A j \in 1..(i - 1) : InStore(b[j])
    ELSE Len(b) + 1

\* The pairs of the outpoints of a batch before the first missing one.
FoundPrefix(b) ==
    [i \in 1..(FirstMissing(b) - 1) |-> <<b[i], GetCoin(CoinsDB, b[i])>>]

\* Occurrence n was claimed, and the worker that claimed it has left its
\* batch without looking it up.
Abandoned(n) ==
    /\ claimers[n] > 0
    /\ looked[n] = 0
    /\ \A w \in Workers : \A i \in 1..Len(claim_ids[w]) : claim_ids[w][i] # n

\* A lookup is made by a worker for the next outpoint of its batch, all the
\* outpoints before it having been looked up and found and none after it
\* looked up; a missing coin ends the batch.
LookupInBatchOrder ==
    looked' # looked =>
        \E w \in Workers :
            /\ pc[w] = "fetch"
            /\ looked' = [looked EXCEPT ![claim_ids[w][it[w]]] = @ + 1]
            /\ lookups' = [lookups EXCEPT ![outpoints[w][it[w]]] = @ + 1]
            /\ Len(claim_ids[w]) = Len(outpoints[w])
            /\ \A i \in 1..Len(outpoints[w]) :
                  /\ i < it[w] => /\ looked[claim_ids[w][i]] = 1
                                  /\ pairs[w][i] = <<outpoints[w][i],
                                                     GetCoin(CoinsDB, outpoints[w][i])>>
                                  /\ InStore(outpoints[w][i])
                  /\ i >= it[w] => looked[claim_ids[w][i]] = 0
            /\ Len(pairs[w]) = it[w] - 1
            /\ ~InStore(outpoints[w][it[w]]) =>
                  /\ pc'[w] = "lock"
                  /\ pairs'[w] = pairs[w]
                  /\ \A n \in Occurrences :
                        (\E i \in (it[w] + 1)..Len(outpoints[w]) :
                            claim_ids[w][i] = n) => Abandoned(n)'

\* A worker that publishes publishes the pairs of its batch up to the first
\* missing outpoint.
MergesFoundPrefix ==
    \A w \in Workers :
        (pc[w] = "crit" /\ pc'[w] # "crit" /\ claimed[w] # <<>>) =>
            m_pairs' = m_pairs \o FoundPrefix(claimed[w])

\* C35: within a claimed batch a worker looks the outpoints up in batch
\* order and makes no lookup after the first outpoint the store lacks; what
\* it merges later are the pairs of the batch before that outpoint; the
\* outpoints after it are never looked up by any worker in this call.
C35_BatchAbandonedAtFirstMissing ==
    [][/\ LookupInBatchOrder
       /\ lookups' # lookups => looked' # looked
       /\ MergesFoundPrefix
       /\ \A n \in Occurrences : Abandoned(n) => Abandoned(n)']_vars

\* The call has returned; an outpoint that followed a missing one in its
\* batch was never looked up.
C35_Witness ==
    /\ fi_pc = "returned"
    /\ ~m_request_stop
    /\ lookups[oM] = 1
    /\ lookups[oA] = 0
    /\ \E n \in Occurrences : Abandoned(n)

\* A worker that waits for work, or has just been woken, holds nothing
\* unmerged.
WaitingHoldsNothing ==
    \A w \in ActiveWorkers :
        pc[w] \in {"wait", "relock", "recheck"} => claimed[w] = <<>> /\ pairs[w] = <<>>

\* The critical section that opens an iteration publishes the batch the
\* worker holds, if it holds one, and nothing else changes m_pairs or
\* lowers the counter.
PublishStep ==
    /\ \A w \in Workers :
          (pc[w] = "crit" /\ pc'[w] # "crit") =>
              IF claimed[w] # <<>>
              THEN /\ m_pairs' = m_pairs \o pairs[w]
                   /\ m_in_flight_fetches_count' =
                         m_in_flight_fetches_count - Len(claimed[w])
                   /\ fi_pc = "main_wait" => fi_pc' = "drain_lock"
                   /\ pc'[w] \in {"wait", "done", "fetch"}
              ELSE /\ m_pairs' = m_pairs
                   /\ m_in_flight_fetches_count' = m_in_flight_fetches_count
                   /\ fi_pc' = fi_pc
    /\ (Len(m_pairs') > Len(m_pairs)
         \/ m_in_flight_fetches_count' < m_in_flight_fetches_count) =>
          \E w \in Workers : pc[w] = "crit" /\ pc'[w] # "crit" /\ claimed[w] # <<>>
    /\ \A w \in Workers :
          (claimed[w] # <<>> /\ claimed'[w] # claimed[w]) => pc[w] = "crit"

\* C36: a worker publishes a finished batch in the critical section that
\* opens its next iteration, before it waits or claims: it appends the
\* results to m_pairs, lowers the counter by the size of the batch claimed,
\* not by the number of results, and wakes the producer; a worker that holds
\* no batch (its first iteration) publishes nothing, and a worker waiting
\* for work holds nothing unmerged.
C36_PublishAtNextIteration ==
    [][PublishStep /\ WaitingHoldsNothing /\ WaitingHoldsNothing']_vars

\* A worker has published a batch of two outpoints with one result and
\* waits for work.
C36_Witness ==
    \E w \in ActiveWorkers :
        /\ pc[w] = "wait"
        /\ in_flight_fetches_count[w] = 2
        /\ Len(m_pairs) = 1
        /\ m_in_flight_fetches_count = 0
        /\ ~m_request_stop

\* How many times n occurs in the sequence q.
Count(q, n) == Cardinality({i \in 1..Len(q) : q[i] = n})

\* C37: every outpoint occurrence handed to the shared queue is in the
\* queue, unclaimed, or was claimed once, by the one worker that took it
\* out; it is looked up at most once; when FetchInputs returns without
\* shutdown every occurrence handed over has been claimed exactly once.
C37_ClaimedOnceLookedUpOnce ==
    /\ Len(m_ids) = Len(m_outpoints)
    /\ \A n \in Occurrences :
          /\ claimers[n] <= 1
          /\ looked[n] <= claimers[n]
          /\ n > handed => claimers[n] = 0 /\ Count(m_ids, n) = 0
          /\ n <= handed => Count(m_ids, n) + claimers[n] = 1
          /\ Cardinality({w \in Workers : Count(claim_ids[w], n) > 0}) <= claimers[n]
    /\ (fi_pc = "returned" /\ ~m_request_stop) =>
          \A n \in 1..handed : claimers[n] = 1

\* The call has returned: two occurrences were handed over and claimed, the
\* missing outpoint was looked up once.
C37_Witness ==
    /\ fi_pc = "returned"
    /\ ~m_request_stop
    /\ handed = 2
    /\ \A n \in 1..handed : claimers[n] = 1
    /\ lookups[oM] = 1
    /\ worker_threads = 2

\* C38: no wake-up is lost: in no reachable state is the queue non-empty,
\* no shutdown requested, and every worker blocked in m_worker_cv.wait,
\* unless Add has just filled the queue and is about to notify.
C38_NoLostWakeup ==
    ~(/\ m_outpoints # <<>>
      /\ ~m_request_stop
      /\ fi_pc # "add_notify"
      /\ \A w \in ActiveWorkers : pc[w] = "wait")

\* Two workers were waiting when Add queued two outpoints; it is about to
\* notify them all.
C38_Witness ==
    /\ worker_threads = 2
    /\ fi_pc = "add_notify"
    /\ Len(m_outpoints) = 2
    /\ \A w \in ActiveWorkers : pc[w] = "wait"

\* C39: if every needed outpoint exists in the store, FetchInputs returns
\* with all of them in the cache, each holding the store's coin.
C39_AllNeededFetched ==
    (/\ fi_pc = "returned"
     /\ ~m_request_stop
     /\ \A o \in Needed : InStore(o)) =>
        \A o \in Needed : cache[o].coin = GetCoin(CoinsDB, o)

====
